---- MODULE Spec2Model ----
(***************************************************************************)
(* Liquidation-reaction paper trading engine (GeldiMS/dingbot).            *)
(*                                                                         *)
(* Modelled: pExchange.PaperExchange (account, ledger, lifecycle),         *)
(* pScanner.PaperScanner (signal aggregator) and the polling loop of       *)
(* paper_trading.main driving one "24/7" and one "Scheduled" account.      *)
(*                                                                         *)
(* Units.  The source computes with floats; the model computes with exact  *)
(* integers in fixed units:                                                *)
(*   prices        tenths of a dollar (EXCHANGE_PRICE_PRECISION = 1)       *)
(*   sizes         tenths of a contract (sizes are rounded to 1 decimal)   *)
(*   tp/sl/weight  tenths (4.0 % -> 40, 1.0 % -> 10, 0.5 -> 5)             *)
(*   money         1e-9 dollar, the unit in which pnl and fees of tenth-   *)
(*                 priced, tenth-sized positions are whole numbers         *)
(*   volumes       thousandths of a BTC                                    *)
(*   time          minutes since a Monday 00:00                            *)
(* Python's round() is round-half-to-even; optional values use None.       *)
(***************************************************************************)
EXTENDS Integers, Sequences, FiniteSets, TLC

\* ------------------------------------------------------------------------
\* Program constants
\* ------------------------------------------------------------------------
LONG == "long"
SHORT == "short"
M247 == "24/7"
MSCHED == "Scheduled"
Accounts == <<M247, MSCHED>>
AccountSet == {M247, MSCHED}

LEVERAGE == 25
\* TAKER_FEE = 0.0005 and MAKER_FEE = 0.0002, in 1e-4
TAKER_FEE == 5
MAKER_FEE == 2
FORBIDDEN_NR_OF_CANDLES_BEFORE_ENTRY == {1}
MINIMAL_LIQUIDATION == 2000
MINIMAL_NR_OF_LIQUIDATIONS == 1
LIQUIDATION_DAYS == {0, 1, 2, 3, 4}
LIQUIDATION_HOURS == {2, 3, 4, 14, 15, 16}
\* "size * price / 1000" dollars of one (tenth of a contract) x (tenth of a
\* dollar), in 1e-9 dollar: 0.1 * 0.1 / 1000 = 1e-5 dollar.  A fee rate r
\* (in 1e-4) of such a value is size * price * r money units exactly.
VALUE_UNIT == 10000
\* the fallback price 95000.0 of set_position_sizes, in tenths of a dollar
FALLBACK_PRICE == 950000
\* the minimum size 0.1, in tenths of a contract
MIN_SIZE == 1
\* the forced parameters of the 24/7 mode: tp = 4.0, sl = 1.0, weight = 0.5
FORCED_TP == 40
FORCED_SL == 10
FORCED_WEIGHT == 5
\* the absent value of an optional field (prices and levels are positive)
None == 0 - 1

\* ------------------------------------------------------------------------
\* Bounds of the model
\* ------------------------------------------------------------------------
\* polling cycles of the main loop that are explored
MaxCycles == 5
\* non-empty liquidation batches the statistics provider delivers in a run
MaxBatches == 1
\* fetches (candle, price) that fail in a run
MaxFailures == 1
\* the starting balance handed to both accounts, in 1e-9 dollar (0.10 dollar)
StartingBalance == 100000000

\* ------------------------------------------------------------------------
\* Arithmetic helpers
\* ------------------------------------------------------------------------
Max(a, b) == IF a >= b THEN a ELSE b

\* round(n / d) for n >= 0, d > 0, half to even as Python's round()
RoundHalfEven(n, d) ==
    LET q == n \div d
        r == n % d
    IN  IF 2 * r < d THEN q
        ELSE IF 2 * r > d THEN q + 1
        ELSE IF q % 2 = 0 THEN q ELSE q + 1

\* a faulty variant: the level is cut to the precision, not rounded
RoundPriceTruncated(price, num, den) == (price * num) \div den

\* round(price * num / den, EXCHANGE_PRICE_PRECISION) on tenths of a dollar
RoundPrice(price, num, den) == RoundHalfEven(price * num, den)

\* datetime.weekday() and datetime.hour of a time in minutes
Weekday(t) == (t \div 1440) % 7
Hour(t) == (t % 1440) \div 60

RECURSIVE SeqRemove(_, _)
\* list.remove(x): drops the first element equal to x
SeqRemove(s, x) ==
    IF s = <<>> THEN <<>>
    ELSE IF Head(s) = x THEN Tail(s)
    ELSE <<Head(s)>> \o SeqRemove(Tail(s), x)

SeqHas(s, x) == \E i \in 1..Len(s) : s[i] = x

\* round(n / (d1 * d2)) half to even, without forming d1 * d2
RoundHalfEven2(n, d1, d2) ==
    LET h == ((2 * n) \div d1) \div d2
        q == h \div 2
        exact == (2 * n) % d1 = 0 /\ ((2 * n) \div d1) % d2 = 0
    IN  IF h % 2 = 0 THEN q
        ELSE IF ~exact THEN q + 1
        ELSE IF q % 2 = 0 THEN q ELSE q + 1

\* Python truthiness of an optional number: None and 0 are false
Truthy(x) == x # None /\ x # 0

\* ------------------------------------------------------------------------
\* Ledger arithmetic (process_market_movements)
\* ------------------------------------------------------------------------
\* position_value * fee: size * price / 1000 * rate, in money units
Fee(size, price, rate) == size * price * rate

\* (exit - entry) / entry * (size * entry / 1000) * LEVERAGE for a long, the
\* mirror for a short; entry cancels, so the product is formed without it
GrossPnl(direction, entry, exit, size) ==
    IF direction = LONG
    THEN (exit - entry) * size * LEVERAGE * VALUE_UNIT
    ELSE (entry - exit) * size * LEVERAGE * VALUE_UNIT

\* pnl after the exit fee: maker fee on take-profit, taker fee on stop-loss
NetPnl(position, exit_price, close_reason) ==
    GrossPnl(position.direction, position.entry_price, exit_price, position.size)
    - Fee(position.size, exit_price,
          IF close_reason = "tp" THEN MAKER_FEE ELSE TAKER_FEE)

\* ------------------------------------------------------------------------
\* Order fill (process_market_movements, the loop over pending_orders)
\* ------------------------------------------------------------------------
\* a long limit order fills when the candle's low reaches its price, a short
\* one when the candle's high does
OrderFills(order, candle) ==
    IF order.direction = LONG
    THEN candle.low <= order.price
    ELSE candle.high >= order.price

PositionOfOrder(order, candle) ==
    [position_id |-> order.order_id,
     direction |-> order.direction,
     entry_price |-> order.price,
     size |-> order.size,
     stop_loss_price |-> order.stop_loss_price,
     take_profit_price |-> order.take_profit_price,
     entry_timestamp |-> candle.timestamp]

\* a faulty variant: the fill is charged the taker fee
FillOrderTakerFee(e, order, candle) ==
    IF OrderFills(order, candle)
    THEN [e EXCEPT
            !.pending_orders = SeqRemove(@, order),
            !.open_positions = Append(@, PositionOfOrder(order, candle)),
            !.balance = @ - Fee(order.size, order.price, TAKER_FEE)]
    ELSE e

\* one iteration of the loop over deepcopy(pending_orders)
FillOrder(e, order, candle) ==
    IF OrderFills(order, candle)
    THEN [e EXCEPT
            !.pending_orders = SeqRemove(@, order),
            !.open_positions = Append(@, PositionOfOrder(order, candle)),
            !.balance = @ - Fee(order.size, order.price, MAKER_FEE)]
    ELSE e

\* ------------------------------------------------------------------------
\* Position close (process_market_movements, the loop over open_positions)
\* ------------------------------------------------------------------------
TpReached(position, candle) ==
    /\ Truthy(position.take_profit_price)
    /\ IF position.direction = LONG
       THEN candle.high >= position.take_profit_price
       ELSE candle.low <= position.take_profit_price

SlReached(position, candle) ==
    IF position.direction = LONG
    THEN candle.low <= position.stop_loss_price
    ELSE candle.high >= position.stop_loss_price

\* a faulty variant: stop-loss tested first, take-profit in the elif
CloseReasonStopFirst(position, candle) ==
    IF SlReached(position, candle) THEN "sl"
    ELSE IF TpReached(position, candle) THEN "tp"
    ELSE "none"

\* "tp", "sl" or "none": take-profit is tested first, stop-loss in the elif
CloseReason(position, candle) ==
    IF TpReached(position, candle) THEN "tp"
    ELSE IF SlReached(position, candle) THEN "sl"
    ELSE "none"

ExitPrice(position, close_reason) ==
    IF close_reason = "tp" THEN position.take_profit_price
    ELSE position.stop_loss_price

\* a faulty variant: the record carries the close of the candle as exit
TradeRecordAtClose(position, candle, close_reason) ==
    [timestamp |-> candle.timestamp,
     trade_id |-> position.position_id,
     direction |-> position.direction,
     entry_price |-> position.entry_price,
     exit_price |-> candle.close,
     size |-> position.size,
     pnl |-> NetPnl(position, ExitPrice(position, close_reason), close_reason),
     reason |-> close_reason]

TradeRecord(position, candle, close_reason) ==
    [timestamp |-> candle.timestamp,
     trade_id |-> position.position_id,
     direction |-> position.direction,
     entry_price |-> position.entry_price,
     exit_price |-> ExitPrice(position, close_reason),
     size |-> position.size,
     pnl |-> NetPnl(position, ExitPrice(position, close_reason), close_reason),
     reason |-> close_reason]

\* a faulty variant: the peak is never raised
PeakNeverRaised(peak_balance, balance) == peak_balance

\* if self.balance > self.peak_balance: self.peak_balance = self.balance
PeakAfter(peak_balance, balance) ==
    IF balance > peak_balance THEN balance ELSE peak_balance

\* a faulty variant: the drawdown of the last close replaces the maximum
DrawdownOverwritten(max_drawdown, current_drawdown) == current_drawdown

\* if current_drawdown > self.max_drawdown: self.max_drawdown = current_drawdown
DrawdownAfter(max_drawdown, current_drawdown) ==
    IF current_drawdown > max_drawdown THEN current_drawdown ELSE max_drawdown

\* a faulty variant: every close counts as a win
SettleCountsWin(e, position, candle, close_reason) ==
    LET rec == TradeRecord(position, candle, close_reason)
        bal == e.balance + rec.pnl
        peak == PeakAfter(e.peak_balance, bal)
    IN  [e EXCEPT
            !.balance = bal,
            !.wins = @ + 1,
            !.peak_balance = peak,
            !.max_drawdown = DrawdownAfter(@, peak - bal),
            !.trade_history = Append(@, rec),
            !.open_positions = SeqRemove(@, position)]

\* a faulty variant: the balance is credited the gross pnl while the record
\* holds the pnl after fees
SettleGross(e, position, candle, close_reason) ==
    LET rec == TradeRecord(position, candle, close_reason)
        bal == e.balance + GrossPnl(position.direction, position.entry_price,
                                    rec.exit_price, position.size)
        peak == PeakAfter(e.peak_balance, bal)
    IN  [e EXCEPT
            !.balance = bal,
            !.wins = IF rec.pnl > 0 THEN @ + 1 ELSE @,
            !.losses = IF rec.pnl > 0 THEN @ ELSE @ + 1,
            !.peak_balance = peak,
            !.max_drawdown = DrawdownAfter(@, peak - bal),
            !.trade_history = Append(@, rec),
            !.open_positions = SeqRemove(@, position)]

\* the "if closed:" block: settlement of one position
Settle(e, position, candle, close_reason) ==
    LET rec == TradeRecord(position, candle, close_reason)
        bal == e.balance + rec.pnl
        peak == PeakAfter(e.peak_balance, bal)
    IN  [e EXCEPT
            !.balance = bal,
            !.wins = IF rec.pnl > 0 THEN @ + 1 ELSE @,
            !.losses = IF rec.pnl > 0 THEN @ ELSE @ + 1,
            !.peak_balance = peak,
            !.max_drawdown = DrawdownAfter(@, peak - bal),
            !.trade_history = Append(@, rec),
            !.open_positions = SeqRemove(@, position)]

\* one iteration of the loop over deepcopy(open_positions)
ClosePosition(e, position, candle) ==
    IF CloseReason(position, candle) = "none" THEN e
    ELSE Settle(e, position, candle, CloseReason(position, candle))

\* ------------------------------------------------------------------------
\* Position sizing (set_position_sizes, USE_FIXED_RISK = False,
\* POSITION_PERCENTAGE = 1.0)
\* ------------------------------------------------------------------------
\* round(balance / LEVERAGE / price * LEVERAGE * 1000, 1), at least 0.1;
\* an unavailable price is replaced by 95000.0
PositionSizeFor(balance, price) ==
    Max(RoundHalfEven2(balance, VALUE_UNIT,
                       IF Truthy(price) THEN price ELSE FALLBACK_PRICE),
        MIN_SIZE)

\* a faulty variant: the size recalculation restarts the drawdown tracking
SetPositionSizesResetsPeak(e, price) ==
    [e EXCEPT !.position_size = PositionSizeFor(e.balance, price),
              !.peak_balance = e.balance]

SetPositionSizes(e, price) ==
    [e EXCEPT !.position_size = PositionSizeFor(e.balance, price)]

\* ------------------------------------------------------------------------
\* Order placement (get_sl_and_tp_price, limit_order_placement)
\* ------------------------------------------------------------------------
StoplossPrice(direction, price, stoploss_percentage) ==
    IF direction = LONG
    THEN RoundPrice(price, 1000 - stoploss_percentage, 1000)
    ELSE RoundPrice(price, 1000 + stoploss_percentage, 1000)

TakeprofitPrice(direction, price, takeprofit_percentage) ==
    IF direction = LONG
    THEN RoundPrice(price, 1000 + takeprofit_percentage, 1000)
    ELSE RoundPrice(price, 1000 - takeprofit_percentage, 1000)

\* price * 1.0001 for a short, price * 0.9999 for a long, rounded
LimitPrice(direction, price) ==
    IF direction = SHORT
    THEN RoundPrice(price, 10001, 10000)
    ELSE RoundPrice(price, 9999, 10000)

\* the PaperOrder appended when the price is available
\* a faulty variant: the order counter is read but not advanced
LimitOrderPlacementReusesId(e, direction, amount, stoploss_percentage, takeprofit_percentage, price, now) ==
    LET p == LimitPrice(direction, price)
        order == [order_id |-> e.order_id_counter + 1,
                  direction |-> direction,
                  price |-> p,
                  size |-> amount,
                  stop_loss_price |-> StoplossPrice(direction, p, stoploss_percentage),
                  take_profit_price |-> TakeprofitPrice(direction, p, takeprofit_percentage),
                  timestamp |-> now]
    IN  [e EXCEPT !.pending_orders = Append(@, order)]

LimitOrderPlacement(e, direction, amount, stoploss_percentage, takeprofit_percentage, price, now) ==
    LET p == LimitPrice(direction, price)
        order == [order_id |-> e.order_id_counter + 1,
                  direction |-> direction,
                  price |-> p,
                  size |-> amount,
                  stop_loss_price |-> StoplossPrice(direction, p, stoploss_percentage),
                  take_profit_price |-> TakeprofitPrice(direction, p, takeprofit_percentage),
                  timestamp |-> now]
    IN  [e EXCEPT !.order_id_counter = @ + 1,
                  !.pending_orders = Append(@, order)]

\* ------------------------------------------------------------------------
\* Pending entries (handle_position_to_open)
\* ------------------------------------------------------------------------
LongAbove(pto, candle) ==
    Truthy(pto.long_above) /\ candle.close > pto.long_above
ShortBelow(pto, candle) ==
    Truthy(pto.short_below) /\ candle.close < pto.short_below
CancelAbove(pto, candle) ==
    Truthy(pto.cancel_above) /\ candle.close > pto.cancel_above
CancelBelow(pto, candle) ==
    Truthy(pto.cancel_below) /\ candle.close < pto.cancel_below

\* (now - first_candle_after_confirmation).seconds // 300: timedelta.seconds
\* is the remainder of the difference within one day, never negative
NrOfCandlesBeforeEntry(pto, now) ==
    LET first_candle_after_confirmation ==
            pto.liquidation.time + (pto.candles_before_confirmation + 1) * 5
    IN  ((now - first_candle_after_confirmation) % 1440) \div 5

\* a faulty variant: the trigger is tested before the cancel levels
PtoOutcomeTriggerFirst(pto, candle, now) ==
    IF LongAbove(pto, candle) \/ ShortBelow(pto, candle)
    THEN IF NrOfCandlesBeforeEntry(pto, now) \in FORBIDDEN_NR_OF_CANDLES_BEFORE_ENTRY
         THEN "drop" ELSE "order"
    ELSE IF CancelAbove(pto, candle) \/ CancelBelow(pto, candle) THEN "cancel"
    ELSE "wait"

\* a faulty variant: an entry that has waited two candles or more expires
PtoOutcomeExpires(pto, candle, now) ==
    IF CancelAbove(pto, candle) \/ CancelBelow(pto, candle) THEN "cancel"
    ELSE IF ~LongAbove(pto, candle) /\ ~ShortBelow(pto, candle)
         THEN IF NrOfCandlesBeforeEntry(pto, now) >= 2 THEN "cancel" ELSE "wait"
    ELSE IF NrOfCandlesBeforeEntry(pto, now) \in FORBIDDEN_NR_OF_CANDLES_BEFORE_ENTRY
         THEN "drop"
    ELSE "order"

\* what one call does with the entry: "cancel", "wait", "drop" (forbidden
\* delay) or "order"
PtoOutcome(pto, candle, now) ==
    IF CancelAbove(pto, candle) \/ CancelBelow(pto, candle) THEN "cancel"
    ELSE IF ~LongAbove(pto, candle) /\ ~ShortBelow(pto, candle) THEN "wait"
    ELSE IF NrOfCandlesBeforeEntry(pto, now) \in FORBIDDEN_NR_OF_CANDLES_BEFORE_ENTRY
         THEN "drop"
    ELSE "order"

\* round(position_size * weight / sl, 1), at least 0.1
OrderAmount(e, pto, candle) ==
    Max(RoundHalfEven(e.position_size
                        * (IF LongAbove(pto, candle) THEN pto.long_weight
                           ELSE pto.short_weight),
                      IF LongAbove(pto, candle) THEN pto.long_sl ELSE pto.short_sl),
        MIN_SIZE)

\* get_price() returned None inside limit_order_placement: round(None * ...)
\* raises, after the entry was removed, and nothing catches it
PtoRaises(pto, candle, now, price) ==
    PtoOutcome(pto, candle, now) = "order" /\ price = None

\* a faulty variant: a triggered entry that places its order stays in the
\* registry
HandlePositionToOpenKeepsEntry(e, pto, candle, now, price) ==
    LET outcome == PtoOutcome(pto, candle, now)
        removed == [e EXCEPT !.positions_to_open = SeqRemove(@, pto)]
    IN  IF outcome = "wait" THEN e
        ELSE IF outcome \in {"cancel", "drop"} THEN removed
        ELSE IF price = None THEN removed
        ELSE LimitOrderPlacement(
                 e,
                 IF LongAbove(pto, candle) THEN LONG ELSE SHORT,
                 OrderAmount(e, pto, candle),
                 IF LongAbove(pto, candle) THEN pto.long_sl ELSE pto.short_sl,
                 IF LongAbove(pto, candle) THEN pto.long_tp ELSE pto.short_tp,
                 price, now)

\* one call of handle_position_to_open; when it raises, the state it leaves
HandlePositionToOpen(e, pto, candle, now, price) ==
    LET outcome == PtoOutcome(pto, candle, now)
        removed == [e EXCEPT !.positions_to_open = SeqRemove(@, pto)]
    IN  IF outcome = "wait" THEN e
        ELSE IF outcome \in {"cancel", "drop"} THEN removed
        ELSE IF price = None THEN removed
        ELSE LimitOrderPlacement(
                 removed,
                 IF LongAbove(pto, candle) THEN LONG ELSE SHORT,
                 OrderAmount(e, pto, candle),
                 IF LongAbove(pto, candle) THEN pto.long_sl ELSE pto.short_sl,
                 IF LongAbove(pto, candle) THEN pto.long_tp ELSE pto.short_tp,
                 price, now)

\* ------------------------------------------------------------------------
\* Signal confirmation (handle_liquidation)
\* ------------------------------------------------------------------------
\* a faulty variant: a close at the extreme of the signal's candle counts as
\* a strong reaction
ReactionStrongAtExtreme(liquidation, price) ==
    \/ liquidation.direction = LONG /\ price >= liquidation.candle.high
    \/ liquidation.direction = SHORT /\ price <= liquidation.candle.low

\* the close is beyond the extreme of the signal's candle, in its direction
ReactionToLiquidationIsStrong(liquidation, price) ==
    \/ liquidation.direction = LONG /\ price > liquidation.candle.high
    \/ liquidation.direction = SHORT /\ price < liquidation.candle.low

\* a faulty variant: a signal counts as stale one candle later
LiquidationIsStaleAfter20(liquidation, now) ==
    liquidation.candle.timestamp < now - 20

\* liquidation_datetime < now - 15 minutes
LiquidationIsStale(liquidation, now) ==
    liquidation.candle.timestamp < now - 15

\* a faulty variant: two more candles are subtracted
CandlesBeforeConfirmationLessTwo(liquidation, now) ==
    RoundHalfEven(now - liquidation.candle.timestamp, 5) - 3

\* int(round((now - liquidation_datetime).total_seconds() / 300, 0)) - 1
CandlesBeforeConfirmation(liquidation, now) ==
    RoundHalfEven(now - liquidation.candle.timestamp, 5) - 1

DisabledRow == [trade |-> FALSE, tp |-> None, sl |-> None, weight |-> None]

RECURSIVE LookupRow(_, _, _)
\* the loop over the table's rows: the last row of the hour decides
LookupRow(table, hour, found) ==
    IF table = <<>> THEN found
    ELSE LookupRow(Tail(table), hour,
                   IF Head(table).hour = hour
                   THEN [trade |-> Head(table).trade,
                         tp |-> IF Head(table).trade THEN Head(table).tp ELSE found.tp,
                         sl |-> IF Head(table).trade THEN Head(table).sl ELSE found.sl,
                         weight |-> IF Head(table).trade THEN Head(table).weight
                                    ELSE found.weight]
                   ELSE found)

\* a faulty variant: the 24/7 mode forces nothing
LiveRowNeverForced(mode, live, reversed) == live

\* "For 24/7 mode, force trade if neither algorithm allows it"
LiveRow(mode, live, reversed) ==
    IF mode = M247 /\ ~live.trade /\ ~reversed.trade
    THEN [trade |-> TRUE, tp |-> FORCED_TP, sl |-> FORCED_SL, weight |-> FORCED_WEIGHT]
    ELSE live

\* the parameters of one side: an entry level with its row, or none
EntrySide(level, row) == [level |-> level, tp |-> row.tp, sl |-> row.sl, weight |-> row.weight]
NoEntry == [level |-> None, tp |-> None, sl |-> None, weight |-> None]

\* a faulty variant: the same-direction side ignores the confirmation delay
SameSideIgnoresDelay(cbc, live) == live.trade

\* a faulty variant: the same-direction side is cancelled only after more
\* than two candles
SameSideEntryAfterTwo(cbc, live) == IF cbc > 2 THEN FALSE ELSE live.trade

\* the same-direction side of a signal: cancelled when the confirmation took
\* more than one candle, else an entry if the live row trades, else cancelled
SameSideIsEntry(cbc, live) == IF cbc > 1 THEN FALSE ELSE live.trade

\* "if liquidation.direction == LONG": short entry from the reversed row
\* below, long entry from the live row above
LongSignalLevels(cbc, below_price, above_price, live, reversed) ==
    [short |-> IF reversed.trade THEN EntrySide(below_price, reversed) ELSE NoEntry,
     cancel_below |-> IF reversed.trade THEN None ELSE below_price,
     long |-> IF SameSideIsEntry(cbc, live) THEN EntrySide(above_price, live) ELSE NoEntry,
     cancel_above |-> IF SameSideIsEntry(cbc, live) THEN None ELSE above_price]

\* "elif liquidation.direction == SHORT": long entry from the reversed row
\* above, short entry from the live row below
ShortSignalLevels(cbc, below_price, above_price, live, reversed) ==
    [long |-> IF reversed.trade THEN EntrySide(above_price, reversed) ELSE NoEntry,
     cancel_above |-> IF reversed.trade THEN None ELSE above_price,
     short |-> IF SameSideIsEntry(cbc, live) THEN EntrySide(below_price, live) ELSE NoEntry,
     cancel_below |-> IF SameSideIsEntry(cbc, live) THEN None ELSE below_price]

\* the PositionToOpen of a confirmed signal, before the both-cancel test
BuildPositionToOpen(liquidation, candle, now, live, reversed) ==
    LET cbc == CandlesBeforeConfirmation(liquidation, now)
        below_price == RoundPrice(candle.close, 995, 1000)
        above_price == RoundPrice(candle.close, 1005, 1000)
        lv == IF liquidation.direction = LONG
              THEN LongSignalLevels(cbc, below_price, above_price, live, reversed)
              ELSE ShortSignalLevels(cbc, below_price, above_price, live, reversed)
    IN  [id |-> liquidation.id,
         liquidation |-> liquidation,
         candles_before_confirmation |-> cbc,
         long_above |-> lv.long.level,
         short_below |-> lv.short.level,
         short_tp |-> lv.short.tp,
         short_sl |-> lv.short.sl,
         short_weight |-> lv.short.weight,
         long_tp |-> lv.long.tp,
         long_sl |-> lv.long.sl,
         long_weight |-> lv.long.weight,
         cancel_above |-> lv.cancel_above,
         cancel_below |-> lv.cancel_below]

\* a faulty variant: a PendingEntry with both cancel levels is kept
BothCancelledNever(pto) == FALSE

\* if cancel_above and cancel_below: return
BothCancelled(pto) == Truthy(pto.cancel_above) /\ Truthy(pto.cancel_below)

\* a faulty variant: the scheduled account confirms only inside its hours
LiqOutcomeGated(mode, liquidation, candle, now, live, reversed) ==
    IF LiquidationIsStale(liquidation, now) THEN "stale"
    ELSE IF ~ReactionToLiquidationIsStrong(liquidation, candle.close) THEN "weak"
    ELSE IF /\ mode = MSCHED
            /\ ~(/\ Weekday(candle.timestamp) \in LIQUIDATION_DAYS
                 /\ Hour(candle.timestamp) \in LIQUIDATION_HOURS)
         THEN "weak"
    ELSE IF BothCancelled(BuildPositionToOpen(liquidation, candle, now,
                                              LiveRow(mode, live, reversed), reversed))
         THEN "discard"
    ELSE "pto"

\* what one call does with the signal: "stale", "weak" (kept), "discard"
\* (both cancel levels) or "pto"
LiqOutcome(mode, liquidation, candle, now, live, reversed) ==
    IF LiquidationIsStale(liquidation, now) THEN "stale"
    ELSE IF ~ReactionToLiquidationIsStrong(liquidation, candle.close) THEN "weak"
    ELSE IF BothCancelled(BuildPositionToOpen(liquidation, candle, now,
                                              LiveRow(mode, live, reversed), reversed))
         THEN "discard"
    ELSE "pto"

\* a faulty variant: a confirmed signal stays in the registry
HandleLiquidationKeepsSignal(e, liquidation, candle, now, live, reversed) ==
    LET outcome == LiqOutcome(e.mode, liquidation, candle, now, live, reversed)
        removed == [e EXCEPT !.liquidations = SeqRemove(@, liquidation)]
    IN  IF outcome = "weak" THEN e
        ELSE IF outcome \in {"stale", "discard"} THEN removed
        ELSE [e EXCEPT !.positions_to_open =
                 Append(@, BuildPositionToOpen(liquidation, candle, now,
                                               LiveRow(e.mode, live, reversed),
                                               reversed))]

\* one call of handle_liquidation; live and reversed are the rows read from
\* the two tables for the signal's hour
HandleLiquidation(e, liquidation, candle, now, live, reversed) ==
    LET outcome == LiqOutcome(e.mode, liquidation, candle, now, live, reversed)
        removed == [e EXCEPT !.liquidations = SeqRemove(@, liquidation)]
    IN  IF outcome = "weak" THEN e
        ELSE IF outcome \in {"stale", "discard"} THEN removed
        ELSE [removed EXCEPT !.positions_to_open =
                 Append(@, BuildPositionToOpen(liquidation, candle, now,
                                               LiveRow(e.mode, live, reversed),
                                               reversed))]

\* ------------------------------------------------------------------------
\* Signal aggregation (PaperScanner.handle_liquidation_set)
\* ------------------------------------------------------------------------
\* the history buckets of all symbols, in iteration order
RECURSIVE Buckets(_)
Buckets(symbols) ==
    IF symbols = <<>> THEN <<>>
    ELSE Head(symbols).history \o Buckets(Tail(symbols))

RECURSIVE SumField(_, _)
SumField(buckets, f) ==
    IF buckets = <<>> THEN 0 ELSE Head(buckets)[f] + SumField(Tail(buckets), f)

RECURSIVE NrOfLiquidations(_)
\* a bucket side counts when it is above 0.001 BTC
NrOfLiquidations(buckets) ==
    IF buckets = <<>> THEN 0
    ELSE (IF Head(buckets).l > 1 THEN 1 ELSE 0)
         + (IF Head(buckets).s > 1 THEN 1 ELSE 0)
         + NrOfLiquidations(Tail(buckets))

\* l_time: the t of the last bucket, 0 without buckets
LTime(buckets) == IF buckets = <<>> THEN 0 ELSE buckets[Len(buckets)].t

\* a faulty variant: the scheduled account is not gated
IsTradingTimeAlways(mode, candle) == TRUE

IsTradingTime(mode, candle) ==
    IF mode = MSCHED
    THEN /\ Weekday(candle.timestamp) \in LIQUIDATION_DAYS
         /\ Hour(candle.timestamp) \in LIQUIDATION_HOURS
    ELSE TRUE

\* a faulty variant: the volume is compared without the conversion to dollars
EmitsSignalRaw(mode, candle, symbols, f) ==
    /\ SumField(Buckets(symbols), f) > MINIMAL_LIQUIDATION * 1000
    /\ NrOfLiquidations(Buckets(symbols)) >= MINIMAL_NR_OF_LIQUIDATIONS
    /\ IsTradingTime(mode, candle)

\* total BTC * candle.close > MINIMAL_LIQUIDATION dollars, with the volume in
\* thousandths of a BTC and the price in tenths of a dollar
EmitsSignal(mode, candle, symbols, f) ==
    /\ SumField(Buckets(symbols), f) * candle.close > MINIMAL_LIQUIDATION * 10000
    /\ NrOfLiquidations(Buckets(symbols)) >= MINIMAL_NR_OF_LIQUIDATIONS
    /\ IsTradingTime(mode, candle)

\* "l-HHMM" / "s-HHMM" of the candle's time
LiquidationId(prefix, candle) ==
    <<prefix, Hour(candle.timestamp) * 100 + (candle.timestamp % 60)>>

NewLiquidation(direction, candle, symbols) ==
    [id |-> LiquidationId(IF direction = LONG THEN "l" ELSE "s", candle),
     amount |-> SumField(Buckets(symbols), IF direction = LONG THEN "l" ELSE "s"),
     direction |-> direction,
     time |-> LTime(Buckets(symbols)),
     nr_of_liquidations |-> NrOfLiquidations(Buckets(symbols)),
     candle |-> candle]

\* the long signal is inserted at the front first, then the short one
HandleLiquidationSet(e, candle, symbols) ==
    LET withLong ==
            IF EmitsSignal(e.mode, candle, symbols, "l")
            THEN <<NewLiquidation(LONG, candle, symbols)>> \o e.liquidations
            ELSE e.liquidations
        withShort ==
            IF EmitsSignal(e.mode, candle, symbols, "s")
            THEN <<NewLiquidation(SHORT, candle, symbols)>> \o withLong
            ELSE withLong
    IN  [e EXCEPT !.liquidations = withShort]

\* ------------------------------------------------------------------------
\* run_loop as one function of the account (the steps below run it one
\* handler call at a time)
\* ------------------------------------------------------------------------
RECURSIVE FillOrders(_, _, _)
\* for order in deepcopy(self.pending_orders)
FillOrders(e, orders, candle) ==
    IF orders = <<>> THEN e
    ELSE FillOrders(FillOrder(e, Head(orders), candle), Tail(orders), candle)

RECURSIVE ClosePositions(_, _, _)
\* for position in deepcopy(self.open_positions)
ClosePositions(e, positions, candle) ==
    IF positions = <<>> THEN e
    ELSE ClosePositions(ClosePosition(e, Head(positions), candle), Tail(positions),
                        candle)

\* the positions loop copies open_positions after the orders loop has run
ProcessMarketMovements(e, candle) ==
    LET filled == FillOrders(e, e.pending_orders, candle)
    IN  ClosePositions(filled, filled.open_positions, candle)

RECURSIVE HandlePositionsToOpen(_, _, _, _, _)
\* for position_to_open in deepcopy(self.positions_to_open); a raise ends
\* the loop and run_loop
HandlePositionsToOpen(r, ptos, candle, now, price) ==
    IF ptos = <<>> \/ r.raised THEN r
    ELSE HandlePositionsToOpen(
             [e |-> HandlePositionToOpen(r.e, Head(ptos), candle, now, price),
              raised |-> PtoRaises(Head(ptos), candle, now, price)],
             Tail(ptos), candle, now, price)

RECURSIVE HandleLiquidations(_, _, _, _, _)
\* for liquidation in deepcopy(self.liquidation_set.liquidations)
HandleLiquidations(e, liquidations, candle, now, tbl) ==
    IF liquidations = <<>> THEN e
    ELSE HandleLiquidations(
             HandleLiquidation(
                 e, Head(liquidations), candle, now,
                 LookupRow(tbl.live, Hour(Head(liquidations).candle.timestamp),
                           DisabledRow),
                 LookupRow(tbl.reversed, Hour(Head(liquidations).candle.timestamp),
                           DisabledRow)),
             Tail(liquidations), candle, now, tbl)

\* run_loop with the price get_price returns in it: the account it leaves
\* and whether it raised
RunLoop(e, candle, now, price, tbl) ==
    LET moved == ProcessMarketMovements(e, candle)
        opened == HandlePositionsToOpen([e |-> moved, raised |-> FALSE],
                                        moved.positions_to_open, candle, now, price)
    IN  IF opened.raised THEN opened
        ELSE [e |-> HandleLiquidations(opened.e, opened.e.liquidations, candle, now,
                                       tbl),
              raised |-> FALSE]

\* ------------------------------------------------------------------------
\* Inputs of the environment
\* ------------------------------------------------------------------------
\* the shapes of the 5-minute candles the market-data provider returns
\* (open, high, low, close in tenths of a dollar): a dip, a rise, a wide bar
CandleShapes ==
    { [open |-> 995,  high |-> 1000, low |-> 990,  close |-> 995],
      [open |-> 1005, high |-> 1010, low |-> 1005, close |-> 1010],
      [open |-> 1000, high |-> 1070, low |-> 950,  close |-> 1060] }

\* Candle(*last_candles[0]) of the bar that opened at time ts
CandleAt(shape, ts) ==
    [open |-> shape.open, high |-> shape.high, low |-> shape.low,
     close |-> shape.close, timestamp |-> ts, volume |-> 0]

\* get_last_candle returned None
NoCandle ==
    [open |-> None, high |-> None, low |-> None, close |-> None,
     timestamp |-> None, volume |-> None]

\* the last-trade prices fetch_ticker returns
Prices == {1000}

\* one symbol with one bucket: t, long and short volume
Batch(t, l, s) ==
    <<[symbol |-> "BTCUSD_PERP", history |-> <<[t |-> t, l |-> l, s |-> s]>>]>>

\* the non-empty liquidation batches of the window ending at time to: 30 BTC
\* on one side or on both (above the threshold at these prices), or 10 BTC
\* long (a counted event, below the threshold) with 30 BTC short, the bucket
\* stamped with the start or the end of the window
BatchesAt(to) ==
    { Batch(to - 5, 30000, 0), Batch(to, 30000, 0), Batch(to, 10000, 30000),
      Batch(to, 30000, 30000) }

\* the per-hour rows of a strategy table for the hours of a run
TableRows(trade, tp, sl, weight) ==
    [h \in 1..4 |-> [hour |-> 3 + h, trade |-> trade, tp |-> tp, sl |-> sl,
                     weight |-> weight]]

\* the tables on disk: each strategy either trades every hour or none
LiveTables == {TableRows(TRUE, 40, 10, 5), TableRows(FALSE, 0, 0, 0)}
ReversedTables == {TableRows(TRUE, 40, 10, 10), TableRows(FALSE, 0, 0, 0)}

\* the times of the first run: Monday 04:50 (inside the scheduled hours,
\* which end at 05:00) and Monday 06:00 (outside them)
StartTimes == {290, 360}

\* ------------------------------------------------------------------------
\* State
\* ------------------------------------------------------------------------
VARIABLES
    ex,          \* the two PaperExchange objects with their liquidation sets
    now,         \* scanner.now of both scanners, in minutes
    last_candle, \* the candle of the current cycle, or NoCandle
    symbols,     \* the liquidation batch fetched in the current cycle
    tables,      \* the live and reversed strategy tables
    pc,          \* where the main loop is: "sizes", "tick", "run", "scan", "crashed"
    acct,        \* 1 or 2: the account the loop is serving in Accounts
    phase,       \* inside run_loop: "orders", "positions", "pto", "liq"
    it,          \* the rest of the deep-copied list the current loop iterates
    cycles,      \* cycles started
    batches,     \* non-empty batches delivered
    failures,    \* failed fetches
    ev           \* the last step taken: what was done with which item

vars == <<ex, now, last_candle, symbols, tables, pc, acct, phase, it, cycles,
          batches, failures, ev>>

\* PaperExchange.__init__
NewExchange(mode, starting_balance) ==
    [mode |-> mode,
     balance |-> starting_balance,
     starting_balance |-> starting_balance,
     peak_balance |-> starting_balance,
     max_drawdown |-> 0,
     open_positions |-> <<>>,
     pending_orders |-> <<>>,
     positions_to_open |-> <<>>,
     trade_history |-> <<>>,
     wins |-> 0,
     losses |-> 0,
     order_id_counter |-> 0,
     position_size |-> MIN_SIZE,
     liquidations |-> <<>>]

NoEvent == [kind |-> "init", acct |-> M247, item |-> None, outcome |-> "none"]

Event(kind, a, item, outcome) ==
    [kind |-> kind, acct |-> a, item |-> item, outcome |-> outcome]

Init ==
    /\ ex = [a \in AccountSet |-> NewExchange(a, StartingBalance)]
    /\ now \in {t - 5 : t \in StartTimes}
    /\ last_candle = NoCandle
    /\ symbols = <<>>
    /\ tables \in [live : LiveTables, reversed : ReversedTables]
    /\ pc = "sizes"
    /\ acct = 1
    /\ phase = "none"
    /\ it = <<>>
    /\ cycles = 0
    /\ batches = 0
    /\ failures = 0
    /\ ev = NoEvent

\* ------------------------------------------------------------------------
\* The main loop (paper_trading.main) and run_loop, one step per handler call
\* ------------------------------------------------------------------------
\* a faulty variant: both pipelines work on the exchange of the 24/7 account
AcctShared == M247

\* the account the main loop is serving
Acct == Accounts[acct]

\* what get_price may return: a price, or None while failures are left
PriceReplies == Prices \cup (IF failures < MaxFailures THEN {None} ELSE {})

\* set_position_sizes of one account: before the loop and at minute 4 of
\* every 5-minute window, first the 24/7 account, then the scheduled one
SetSizes ==
    /\ pc = "sizes"
    /\ \E price \in PriceReplies :
          /\ ex' = [ex EXCEPT ![Acct] = SetPositionSizes(@, price)]
          /\ failures' = IF price = None THEN failures + 1 ELSE failures
          /\ ev' = Event("sizes", Acct, price, "none")
    /\ IF acct = 1
       THEN acct' = 2 /\ pc' = pc
       ELSE acct' = 1 /\ pc' = "tick"
    /\ UNCHANGED <<now, last_candle, symbols, tables, phase, it, cycles, batches>>

\* a faulty variant: the signals are evaluated before the fills and closes
PhasesConfirmFirst == <<"liq", "orders", "positions", "pto">>

\* a faulty variant: the pending entries are evaluated before the fills and
\* closes
PhasesEntriesFirst == <<"pto", "orders", "positions", "liq">>

\* the loops of run_loop in their order: pending orders and open positions
\* (process_market_movements), pending entries, signals
Phases == <<"orders", "positions", "pto", "liq">>

PhaseIndex(ph) == CHOOSE k \in DOMAIN Phases : Phases[k] = ph

\* the list a loop of run_loop iterates, copied when the loop starts
Snapshot(e, ph) ==
    CASE ph = "orders" -> e.pending_orders
      [] ph = "positions" -> e.open_positions
      [] ph = "pto" -> e.positions_to_open
      [] ph = "liq" -> e.liquidations

RECURSIVE LoopFrom(_, _, _)
\* where the main loop continues when it reaches loop k of run_loop of
\* account a with the exchanges exs: a loop over an empty copy has no step,
\* after the last loop of the 24/7 account run_loop of the scheduled account
\* starts, after that of the scheduled account the scan
LoopFrom(exs, a, k) ==
    IF k > Len(Phases)
    THEN IF a = 1 THEN LoopFrom(exs, 2, 1)
         ELSE [pc |-> "scan", acct |-> 1, phase |-> "none", it |-> <<>>]
    ELSE IF Snapshot(exs[Accounts[a]], Phases[k]) # <<>>
    THEN [pc |-> "run", acct |-> a, phase |-> Phases[k],
          it |-> Snapshot(exs[Accounts[a]], Phases[k])]
    ELSE LoopFrom(exs, a, k + 1)

\* after one item of the current loop: the rest of the copy, or the next loop
AfterItem(exs) ==
    IF Tail(it) # <<>>
    THEN [pc |-> "run", acct |-> acct, phase |-> phase, it |-> Tail(it)]
    ELSE LoopFrom(exs, acct, PhaseIndex(phase) + 1)

\* the main loop moves to position p
Goto(p) == pc' = p.pc /\ acct' = p.acct /\ phase' = p.phase /\ it' = p.it

\* the 5-minute tick: scanner.now is set, the candle that opened 5 minutes
\* earlier is fetched and run_loop of the 24/7 account starts
Tick ==
    /\ pc = "tick"
    /\ cycles < MaxCycles
    /\ now' = now + 5
    /\ cycles' = cycles + 1
    /\ \E shape \in CandleShapes : last_candle' = CandleAt(shape, now' - 5)
    /\ Goto(LoopFrom(ex, 1, 1))
    /\ ev' = Event("tick", M247, None, "candle")
    /\ UNCHANGED <<ex, symbols, tables, batches, failures>>

\* a faulty variant: a failed candle fetch ends the program
TickNoCandleFatal ==
    /\ pc = "tick"
    /\ cycles < MaxCycles
    /\ failures < MaxFailures
    /\ now' = now + 5
    /\ cycles' = cycles + 1
    /\ failures' = failures + 1
    /\ last_candle' = NoCandle
    /\ pc' = "crashed"
    /\ acct' = 1
    /\ ev' = Event("tick", M247, None, "unavailable")
    /\ UNCHANGED <<ex, symbols, tables, phase, it, batches>>

\* the tick of a cycle whose candle fetch fails: "if last_candle:" skips
\* run_loop and the scan of both accounts
TickNoCandle ==
    /\ pc = "tick"
    /\ cycles < MaxCycles
    /\ failures < MaxFailures
    /\ now' = now + 5
    /\ cycles' = cycles + 1
    /\ failures' = failures + 1
    /\ last_candle' = NoCandle
    /\ pc' = "sizes"
    /\ acct' = 1
    /\ ev' = Event("tick", M247, None, "unavailable")
    /\ UNCHANGED <<ex, symbols, tables, phase, it, batches>>

\* process_market_movements, one pending order of the copied list
FillStep ==
    /\ pc = "run" /\ phase = "orders" /\ it # <<>>
    /\ ex' = [ex EXCEPT ![Acct] = FillOrder(@, Head(it), last_candle)]
    /\ Goto(AfterItem(ex'))
    /\ ev' = Event("order", Acct, Head(it),
                   IF OrderFills(Head(it), last_candle) THEN "fill" ELSE "wait")
    /\ UNCHANGED <<now, last_candle, symbols, tables, cycles, batches, failures>>

\* process_market_movements, one open position of the copied list
CloseStep ==
    /\ pc = "run" /\ phase = "positions" /\ it # <<>>
    /\ ex' = [ex EXCEPT ![Acct] = ClosePosition(@, Head(it), last_candle)]
    /\ Goto(AfterItem(ex'))
    /\ ev' = Event("position", Acct, Head(it), CloseReason(Head(it), last_candle))
    /\ UNCHANGED <<now, last_candle, symbols, tables, cycles, batches, failures>>

\* handle_position_to_open of one pending entry of the copied list; the
\* price is fetched only when an order is placed
PtoStep ==
    /\ pc = "run" /\ phase = "pto" /\ it # <<>>
    /\ \E price \in (IF PtoOutcome(Head(it), last_candle, now) = "order"
                      THEN PriceReplies ELSE {None}) :
          /\ ex' = [ex EXCEPT ![Acct] =
                       HandlePositionToOpen(@, Head(it), last_candle, now, price)]
          /\ IF PtoRaises(Head(it), last_candle, now, price)
             THEN /\ Goto([pc |-> "crashed", acct |-> acct, phase |-> phase,
                           it |-> Tail(it)])
                  /\ failures' = failures + 1
                  /\ ev' = Event("pto", Acct, Head(it), "raise")
             ELSE /\ Goto(AfterItem(ex'))
                  /\ failures' = failures
                  /\ ev' = Event("pto", Acct, Head(it),
                                 PtoOutcome(Head(it), last_candle, now))
    /\ UNCHANGED <<now, last_candle, symbols, tables, cycles, batches>>

\* the rows the two tables hold for the hour of the signal's candle
LiveRowOf(liquidation) ==
    LookupRow(tables.live, Hour(liquidation.candle.timestamp), DisabledRow)
ReversedRowOf(liquidation) ==
    LookupRow(tables.reversed, Hour(liquidation.candle.timestamp), DisabledRow)

\* handle_liquidation of one signal of the copied registry
LiqStep ==
    /\ pc = "run" /\ phase = "liq" /\ it # <<>>
    /\ ex' = [ex EXCEPT ![Acct] =
                 HandleLiquidation(@, Head(it), last_candle, now,
                                   LiveRowOf(Head(it)), ReversedRowOf(Head(it)))]
    /\ Goto(AfterItem(ex'))
    /\ ev' = Event("liq", Acct, Head(it),
                   LiqOutcome(Acct, Head(it), last_candle, now,
                              LiveRowOf(Head(it)), ReversedRowOf(Head(it))))
    /\ UNCHANGED <<now, last_candle, symbols, tables, cycles, batches, failures>>

\* what handle_coinalyze_url may return: [] (nothing, or a failed request)
\* or a batch of the window that ends now
BatchReplies ==
    {<<>>} \cup (IF batches < MaxBatches THEN BatchesAt(now) ELSE {})

\* the liquidation batch is fetched once and aggregated for the 24/7 account
Scan247 ==
    /\ pc = "scan" /\ acct = 1
    /\ \E batch \in BatchReplies :
          /\ symbols' = batch
          /\ batches' = IF batch = <<>> THEN batches ELSE batches + 1
          /\ ex' = [ex EXCEPT ![M247] = HandleLiquidationSet(@, last_candle, batch)]
          /\ ev' = Event("scan", M247, None, "none")
    /\ acct' = 2
    /\ UNCHANGED <<now, last_candle, tables, pc, phase, it, cycles, failures>>

\* a deep copy of the same batch is aggregated for the scheduled account
ScanScheduled ==
    /\ pc = "scan" /\ acct = 2
    /\ ex' = [ex EXCEPT ![MSCHED] = HandleLiquidationSet(@, last_candle, symbols)]
    /\ ev' = Event("scan", MSCHED, None, "none")
    /\ acct' = 1
    /\ pc' = "sizes"
    /\ UNCHANGED <<now, last_candle, symbols, tables, phase, it, cycles, batches,
                   failures>>

Next ==
    \/ SetSizes
    \/ Tick
    \/ TickNoCandle
    \/ FillStep
    \/ CloseStep
    \/ PtoStep
    \/ LiqStep
    \/ Scan247
    \/ ScanScheduled

Spec == Init /\ [][Next]_vars

\* ------------------------------------------------------------------------
\* Ledger claims
\* ------------------------------------------------------------------------
RECURSIVE SumPnl(_)
SumPnl(history) ==
    IF history = <<>> THEN 0 ELSE Head(history).pnl + SumPnl(Tail(history))

\* C1: in every reachable state of an account, balance equals
\* starting_balance plus the sum of the pnl of all records of trade_history.
\* The entry fee of a fill is taken from the balance and enters no record.
C1_BalanceIsStartPlusPnl ==
    \A a \in AccountSet :
        ex[a].balance = ex[a].starting_balance + SumPnl(ex[a].trade_history)

Last(seq) == seq[Len(seq)]

\* C2: every close of a position (a position leaves open_positions, a record
\* enters trade_history) appends exactly one record and changes the balance
\* by exactly the pnl written into that record.
C2_CloseAddsRecordedPnl ==
    [][\A a \in AccountSet :
         (\/ Len(ex'[a].trade_history) # Len(ex[a].trade_history)
          \/ Len(ex'[a].open_positions) < Len(ex[a].open_positions))
         => /\ Len(ex'[a].trade_history) = Len(ex[a].trade_history) + 1
            /\ Len(ex'[a].open_positions) = Len(ex[a].open_positions) - 1
            /\ Last(ex'[a].trade_history).reason \in {"tp", "sl"}
            /\ ex'[a].balance = ex[a].balance + Last(ex'[a].trade_history).pnl]_vars

\* a short position was just closed on its stop-loss, with a loss net of the
\* taker fee
C2_Witness ==
    /\ ev.kind = "position" /\ ev.outcome = "sl" /\ ev.item.direction = SHORT
    /\ Last(ex[ev.acct].trade_history).trade_id = ev.item.position_id
    /\ Last(ex[ev.acct].trade_history).pnl
         < GrossPnl(SHORT, ev.item.entry_price, ev.item.stop_loss_price, ev.item.size)

\* C3: peak_balance >= balance in every reachable state of an account.
C3_PeakAtLeastBalance ==
    \A a \in AccountSet : ex[a].peak_balance >= ex[a].balance

\* an entry fee and a losing close took the balance below the peak, and a
\* winning close has then raised the balance and the peak above the start
C3_Witness ==
    /\ ev.kind = "position" /\ ev.outcome = "tp"
    /\ ex[ev.acct].max_drawdown > 0
    /\ ex[ev.acct].peak_balance > ex[ev.acct].starting_balance
    /\ ex[ev.acct].peak_balance = ex[ev.acct].balance

\* C4: max_drawdown >= peak_balance - balance in every reachable state,
\* also after an entry fee was charged and before the position closes.
C4_DrawdownCoversPeakMinusBalance ==
    \A a \in AccountSet :
        ex[a].max_drawdown >= ex[a].peak_balance - ex[a].balance

\* C5: max_drawdown starts at 0 and no step of any account decreases it.
C5_MaxDrawdownMonotone ==
    /\ \A a \in AccountSet : ex[a].max_drawdown = 0
    /\ [][\A a \in AccountSet : ex'[a].max_drawdown >= ex[a].max_drawdown]_vars

\* a close after a drawdown was recorded left a smaller current drawdown
\* than the recorded maximum
C5_Witness ==
    /\ ev.kind = "position" /\ ev.outcome \in {"tp", "sl"}
    /\ ex[ev.acct].max_drawdown > ex[ev.acct].peak_balance - ex[ev.acct].balance
    /\ Len(ex[ev.acct].trade_history) >= 2

\* ------------------------------------------------------------------------
\* Confirmation claims
\* ------------------------------------------------------------------------
\* the account is about to evaluate the signal Head(it)
EvaluatesSignal == pc = "run" /\ phase = "liq" /\ it # <<>>

\* C6: a signal whose originating candle is more than 15 minutes older than
\* the scan time is removed by its next evaluation and adds no PendingEntry,
\* whether or not the latest close makes the reaction strong.
C6_StaleSignalRemoved ==
    [][(EvaluatesSignal /\ Head(it).candle.timestamp < now - 15)
       => /\ ~SeqHas(ex'[Acct].liquidations, Head(it))
          /\ Len(ex'[Acct].liquidations) = Len(ex[Acct].liquidations) - 1
          /\ ex'[Acct].positions_to_open = ex[Acct].positions_to_open]_vars

\* a stale signal was just removed although the close was beyond its
\* candle's extreme
C6_Witness ==
    /\ ev.kind = "liq" /\ ev.outcome = "stale"
    /\ ev.item.candle.timestamp < now - 15
    /\ ReactionToLiquidationIsStrong(ev.item, last_candle.close)
    /\ ~SeqHas(ex[ev.acct].liquidations, ev.item)

PendingEntries(a) == {ex[a].positions_to_open[i] : i \in DOMAIN ex[a].positions_to_open}

\* C7: no PendingEntry of any account has both cancel-above and cancel-below
\* set.
C7_NeverBothCancelLevels ==
    \A a \in AccountSet : \A pto \in PendingEntries(a) :
        ~(pto.cancel_above # None /\ pto.cancel_below # None)

\* the 24/7 account just dropped a confirmed signal whose two sides were
\* both cancel levels, and built no PendingEntry for it
C7_Witness ==
    /\ ev.kind = "liq" /\ ev.outcome = "discard" /\ ev.acct = M247
    /\ \A pto \in PendingEntries(M247) : pto.id # ev.item.id

\* C8 as stated: every PendingEntry has at most one of long-entry and
\* short-entry set.
C8_AtMostOneEntryLevel ==
    \A a \in AccountSet : \A pto \in PendingEntries(a) :
        ~(pto.long_above # None /\ pto.short_below # None)

\* C8 amended: every PendingEntry has at least one of long-entry and
\* short-entry set, and has both exactly when the live and the reversed table
\* both trade in the signal's hour and candles_before_confirmation <= 1.
C8_EntryLevelsByTables ==
    \A a \in AccountSet : \A pto \in PendingEntries(a) :
        /\ pto.long_above # None \/ pto.short_below # None
        /\ (pto.long_above # None /\ pto.short_below # None)
           <=> /\ LiveRowOf(pto.liquidation).trade
               /\ ReversedRowOf(pto.liquidation).trade
               /\ pto.candles_before_confirmation <= 1

\* both tables trade and a signal confirmed after one candle has both entry
\* levels
C8_Witness ==
    \E a \in AccountSet : \E pto \in PendingEntries(a) :
        /\ pto.long_above # None /\ pto.short_below # None
        /\ pto.candles_before_confirmation = 1

\* ------------------------------------------------------------------------
\* Lifecycle claims
\* ------------------------------------------------------------------------
\* run_loop of both accounts has just run all its loops on last_candle, and
\* the batch of the cycle is not yet fetched
RunLoopDone == pc = "scan" /\ acct = 1

\* C9 as stated: running run_loop again with the same candle and scan time
\* leaves the whole account as the first run left it.
C9_RunLoopIdempotent ==
    RunLoopDone =>
        \A a \in AccountSet : \A price \in Prices \cup {None} :
            RunLoop(ex[a], last_candle, now, price, tables)
                = [e |-> ex[a], raised |-> FALSE]

\* the candle reaches both levels of the position
ReachesBoth(position, candle) ==
    IF position.direction = LONG
    THEN candle.high >= position.take_profit_price
         /\ candle.low <= position.stop_loss_price
    ELSE candle.low <= position.take_profit_price
         /\ candle.high >= position.stop_loss_price

\* C10: a position whose take-profit and stop-loss are both reached by the
\* candle is closed by that evaluation at the take-profit price with reason
\* tp, and exactly one record of it is in trade_history.
C10_TakeProfitBeforeStopLoss ==
    [][(pc = "run" /\ phase = "positions" /\ it # <<>>
        /\ ReachesBoth(Head(it), last_candle))
       => /\ ~SeqHas(ex'[Acct].open_positions, Head(it))
          /\ Len(ex'[Acct].trade_history) = Len(ex[Acct].trade_history) + 1
          /\ Last(ex'[Acct].trade_history).trade_id = Head(it).position_id
          /\ Last(ex'[Acct].trade_history).reason = "tp"
          /\ Last(ex'[Acct].trade_history).exit_price = Head(it).take_profit_price
          /\ Cardinality({i \in DOMAIN ex'[Acct].trade_history :
                            ex'[Acct].trade_history[i].trade_id = Head(it).position_id})
               = 1]_vars

\* a long position was just closed on take-profit by a candle whose low was
\* at or below its stop-loss
C10_Witness ==
    /\ ev.kind = "position" /\ ev.outcome = "tp" /\ ev.item.direction = LONG
    /\ ReachesBoth(ev.item, last_candle)
    /\ Last(ex[ev.acct].trade_history).trade_id = ev.item.position_id
\* ------------------------------------------------------------------------
\* Aggregation claims
\* ------------------------------------------------------------------------
\* the signals a scan step put at the front of the registry of account a
Inserted(a) ==
    SubSeq(ex'[a].liquidations, 1,
           Len(ex'[a].liquidations) - Len(ex[a].liquidations))

\* the scan step of account a inserted a signal of direction d
InsertsSignal(a, d) ==
    \E i \in DOMAIN Inserted(a) : Inserted(a)[i].direction = d

\* the scan step of account a left the older signals in place and inserted
\* at most one signal per direction, built on the cycle's candle
InsertsAtFront(a) ==
    /\ Len(ex'[a].liquidations) >= Len(ex[a].liquidations)
    /\ SubSeq(ex'[a].liquidations, Len(Inserted(a)) + 1, Len(ex'[a].liquidations))
         = ex[a].liquidations
    /\ \A i, j \in DOMAIN Inserted(a) :
          Inserted(a)[i].direction = Inserted(a)[j].direction => i = j
    /\ \A i \in DOMAIN Inserted(a) : Inserted(a)[i].candle = last_candle

\* the field of a bucket that holds the volume of direction d
VolumeField(d) == IF d = LONG THEN "l" ELSE "s"

\* C11 as stated: a scan inserts a signal of direction d exactly when the
\* summed d-volume of the batch (in BTC, as the batch gives it) exceeds
\* MINIMAL_LIQUIDATION, the event count reaches the minimum and the account's
\* time gating permits; at most one signal per direction is inserted.
C11_SignalIffVolumeAboveThreshold ==
    [][\A a \in AccountSet :
         (ev'.kind = "scan" /\ ev'.acct = a)
         => /\ InsertsAtFront(a)
            /\ \A d \in {LONG, SHORT} :
                  InsertsSignal(a, d)
                  <=> /\ SumField(Buckets(symbols'), VolumeField(d))
                           > MINIMAL_LIQUIDATION * 1000
                      /\ NrOfLiquidations(Buckets(symbols'))
                           >= MINIMAL_NR_OF_LIQUIDATIONS
                      /\ IsTradingTime(a, last_candle)]_vars

\* C11 amended: a scan inserts a signal of direction d exactly when the
\* summed d-volume of the batch times the close of the cycle's candle (the
\* dollar value of the volume) exceeds MINIMAL_LIQUIDATION, the event count
\* reaches the minimum and the account's time gating permits; at most one
\* signal per direction is inserted, in front of the older signals.
C11_SignalIffNotionalAboveThreshold ==
    [][\A a \in AccountSet :
         (ev'.kind = "scan" /\ ev'.acct = a)
         => /\ InsertsAtFront(a)
            /\ \A d \in {LONG, SHORT} :
                  InsertsSignal(a, d)
                  <=> /\ SumField(Buckets(symbols'), VolumeField(d)) * last_candle.close
                           > MINIMAL_LIQUIDATION * 1000 * 10
                      /\ NrOfLiquidations(Buckets(symbols'))
                           >= MINIMAL_NR_OF_LIQUIDATIONS
                      /\ IsTradingTime(a, last_candle)]_vars

\* the 24/7 account just scanned a batch with two counted events whose long
\* volume is worth less than the threshold: a short signal and no long one
C11_Witness ==
    /\ ev.kind = "scan" /\ ev.acct = M247
    /\ symbols # <<>>
    /\ NrOfLiquidations(Buckets(symbols)) = 2
    /\ SumField(Buckets(symbols), "l") * last_candle.close
         <= MINIMAL_LIQUIDATION * 1000 * 10
    /\ ex[M247].liquidations # <<>>
    /\ Head(ex[M247].liquidations).direction = SHORT
    /\ Head(ex[M247].liquidations).candle = last_candle
    /\ \A i \in DOMAIN ex[M247].liquidations :
          ex[M247].liquidations[i].candle = last_candle
          => ex[M247].liquidations[i].direction = SHORT

\* the opening times of the candles of the cycles so far: the first tick
\* fetches the candle that opened at the initial scan time, every later tick
\* the one 5 minutes after
CandleTimes == {now - 5 * k : k \in 1..cycles}

\* every candle so far lies outside the scheduled weekdays or hours
AllCandlesOutsideSchedule ==
    \A t \in CandleTimes :
        ~(Weekday(t) \in LIQUIDATION_DAYS /\ Hour(t) \in LIQUIDATION_HOURS)

\* the batch passes the volume and event-count thresholds for direction d
PassesThresholds(batch, candle, d) ==
    /\ SumField(Buckets(batch), VolumeField(d)) * candle.close
         > MINIMAL_LIQUIDATION * 1000 * 10
    /\ NrOfLiquidations(Buckets(batch)) >= MINIMAL_NR_OF_LIQUIDATIONS

\* C12: while every candle time lies outside the scheduled weekday/hour
\* sets, the scheduled account's signals, pending entries, orders and open
\* positions stay empty and its ledger stays at the starting balance, and the
\* 24/7 account, fed the same candles and batches, inserts a signal for
\* every batch and direction that passes the thresholds.
C12_ScheduledIdleOutsideHours ==
    /\ [](AllCandlesOutsideSchedule
            => /\ ex[MSCHED].liquidations = <<>>
               /\ ex[MSCHED].positions_to_open = <<>>
               /\ ex[MSCHED].pending_orders = <<>>
               /\ ex[MSCHED].open_positions = <<>>
               /\ ex[MSCHED].trade_history = <<>>
               /\ ex[MSCHED].balance = ex[MSCHED].starting_balance
               /\ ex[MSCHED].peak_balance = ex[MSCHED].starting_balance
               /\ ex[MSCHED].max_drawdown = 0
               /\ ex[MSCHED].wins = 0 /\ ex[MSCHED].losses = 0)
    /\ [][(ev'.kind = "scan" /\ ev'.acct = M247 /\ AllCandlesOutsideSchedule)
          => \A d \in {LONG, SHORT} :
                PassesThresholds(symbols', last_candle, d)
                => InsertsSignal(M247, d)]_vars

\* outside the scheduled hours both accounts were fed a batch that passes
\* the thresholds: the 24/7 account holds its signal, the scheduled one none
C12_Witness ==
    /\ ev.kind = "scan" /\ ev.acct = MSCHED
    /\ AllCandlesOutsideSchedule
    /\ \E d \in {LONG, SHORT} : PassesThresholds(symbols, last_candle, d)
    /\ ex[M247].liquidations # <<>>
    /\ Head(ex[M247].liquidations).candle = last_candle
    /\ ex[MSCHED].liquidations = <<>>

\* ------------------------------------------------------------------------
\* Pending-entry claims
\* ------------------------------------------------------------------------
\* the step just confirmed a long signal of account a with the live row
\* trading (from the table, or forced for the 24/7 account), the reversed
\* row not trading and at most one candle before the confirmation, and
\* appended its PendingEntry
ConfirmsLongLiveOnly(a) ==
    /\ ev'.kind = "liq" /\ ev'.acct = a /\ ev'.outcome = "pto"
    /\ ev'.item.direction = LONG
    /\ LiveRow(a, LiveRowOf(ev'.item), ReversedRowOf(ev'.item)).trade
    /\ ~ReversedRowOf(ev'.item).trade
    /\ CandlesBeforeConfirmation(ev'.item, now) <= 1
    /\ Len(ex'[a].positions_to_open) = Len(ex[a].positions_to_open) + 1
    /\ Last(ex'[a].positions_to_open).liquidation = ev'.item

\* C13 as stated: the PendingEntry of such a signal has long-entry and
\* cancel-below at 1.005 and 0.995 times the close of the signal's
\* originating candle, rounded to the price precision, and neither a
\* short-entry nor a cancel-above.
C13_LevelsFromOriginatingClose ==
    [][\A a \in AccountSet :
         ConfirmsLongLiveOnly(a)
         => LET pto == Last(ex'[a].positions_to_open)
                c == ev'.item.candle.close
            IN  /\ pto.long_above = RoundHalfEven(c * 1005, 1000)
                /\ pto.cancel_below = RoundHalfEven(c * 995, 1000)
                /\ pto.short_below = None
                /\ pto.cancel_above = None]_vars

\* C13 amended: the levels are 1.005 and 0.995 times the close of the candle
\* that confirms the signal (the candle of the cycle of the evaluation),
\* rounded to the price precision.
C13_LevelsFromConfirmingClose ==
    [][\A a \in AccountSet :
         ConfirmsLongLiveOnly(a)
         => LET pto == Last(ex'[a].positions_to_open)
                c == last_candle.close
            IN  /\ pto.long_above = RoundHalfEven(c * 1005, 1000)
                /\ pto.cancel_below = RoundHalfEven(c * 995, 1000)
                /\ pto.short_below = None
                /\ pto.cancel_above = None]_vars

\* a long signal on a candle that closed at 99.5 was just confirmed by a
\* candle that closed at 101.0: long-entry 101.5, cancel-below 100.5
C13_Witness ==
    /\ ev.kind = "liq" /\ ev.outcome = "pto" /\ ev.item.direction = LONG
    /\ ev.item.candle.close = 995
    /\ last_candle.close = 1010
    /\ ex[ev.acct].positions_to_open # <<>>
    /\ Last(ex[ev.acct].positions_to_open).liquidation = ev.item
    /\ Last(ex[ev.acct].positions_to_open).long_above = 1015
    /\ Last(ex[ev.acct].positions_to_open).cancel_below = 1005
    /\ Last(ex[ev.acct].positions_to_open).short_below = None

\* ------------------------------------------------------------------------
\* Consumption claims
\* ------------------------------------------------------------------------
Elems(seq) == {seq[i] : i \in DOMAIN seq}

NoDuplicates(seq) == \A i, j \in DOMAIN seq : seq[i] = seq[j] => i = j

\* the signals of account a a step removed, and those it inserted
SignalsRemoved(a) == Elems(ex[a].liquidations) \ Elems(ex'[a].liquidations)
SignalsInserted(a) == Elems(ex'[a].liquidations) \ Elems(ex[a].liquidations)

\* the pending entries of account a a step removed, and those it created
EntriesRemoved(a) == Elems(ex[a].positions_to_open) \ Elems(ex'[a].positions_to_open)
EntriesCreated(a) == Elems(ex'[a].positions_to_open) \ Elems(ex[a].positions_to_open)

\* C14: a signal sits in its registry once; it leaves the registry only in
\* the evaluation of that very signal (as stale, or on a strong reaction),
\* which removes nothing else; an evaluated signal is always still in the
\* registry and older than every signal a later scan inserts (a scan only
\* inserts signals of the newest candle), so a removed signal is never
\* evaluated again; and a PendingEntry is only created by the evaluation
\* that removes its signal, one per signal.
C14_SignalConsumedOnce ==
    /\ [](\A a \in AccountSet :
            /\ NoDuplicates(ex[a].liquidations)
            /\ \A i, j \in DOMAIN ex[a].positions_to_open :
                  ex[a].positions_to_open[i].liquidation
                    = ex[a].positions_to_open[j].liquidation => i = j
            /\ \A pto \in Elems(ex[a].positions_to_open) :
                  ~SeqHas(ex[a].liquidations, pto.liquidation))
    /\ [][\A a \in AccountSet :
            /\ \A sig \in SignalsRemoved(a) :
                  /\ EvaluatesSignal /\ Acct = a /\ sig = Head(it)
                  /\ ev'.outcome \in {"stale", "pto", "discard"}
                  /\ Len(ex'[a].liquidations) = Len(ex[a].liquidations) - 1
            /\ \A sig \in SignalsInserted(a) :
                  pc = "scan" /\ sig.candle.timestamp = now - 5
            /\ \A pto \in EntriesCreated(a) :
                  /\ EvaluatesSignal /\ Acct = a /\ pto.liquidation = Head(it)
                  /\ Head(it) \in SignalsRemoved(a)
                  /\ Len(ex'[a].positions_to_open)
                       = Len(ex[a].positions_to_open) + 1]_vars
    /\ [][EvaluatesSignal
          => /\ SeqHas(ex[Acct].liquidations, Head(it))
             /\ Head(it).candle.timestamp < now - 5
             /\ now' = now]_vars

\* of two signals of one cycle the second was just confirmed and removed,
\* with one PendingEntry made for it, while the first stays for another
\* evaluation
C14_Witness ==
    /\ ev.kind = "liq" /\ ev.outcome = "pto"
    /\ ex[ev.acct].liquidations # <<>>
    /\ ~SeqHas(ex[ev.acct].liquidations, ev.item)
    /\ Cardinality({i \in DOMAIN ex[ev.acct].positions_to_open :
                      ex[ev.acct].positions_to_open[i].liquidation = ev.item}) = 1

\* the account is about to evaluate the pending entry Head(it)
EvaluatesEntry == pc = "run" /\ phase = "pto" /\ it # <<>>

\* the ids of the orders, positions and trades of account a
OrderIds(a) ==
    [i \in DOMAIN ex[a].pending_orders |-> ex[a].pending_orders[i].order_id]
    \o [i \in DOMAIN ex[a].open_positions |-> ex[a].open_positions[i].position_id]
    \o [i \in DOMAIN ex[a].trade_history |-> ex[a].trade_history[i].trade_id]

\* C15: a PendingEntry sits in its registry once; it leaves the registry
\* only in the evaluation of that very entry, by a cancel, a forbidden-delay
\* drop or a trigger, which removes nothing else; an evaluated entry is
\* always still in the registry, and an entry is only created for a signal
\* that leaves its registry for good in that step, so a removed entry is
\* never evaluated again; an order is only placed by the step that removes
\* the triggered entry, one per entry, and every order id is held by at most
\* one order, position or trade.
C15_EntryConsumedOnce ==
    /\ [](\A a \in AccountSet :
            /\ NoDuplicates(ex[a].positions_to_open)
            /\ NoDuplicates(OrderIds(a)))
    /\ [][\A a \in AccountSet :
            /\ \A pto \in EntriesRemoved(a) :
                  /\ EvaluatesEntry /\ Acct = a /\ pto = Head(it)
                  /\ ev'.outcome \in {"cancel", "drop", "order", "raise"}
                  /\ Len(ex'[a].positions_to_open)
                       = Len(ex[a].positions_to_open) - 1
            /\ \A pto \in EntriesCreated(a) :
                  /\ EvaluatesSignal /\ pto.liquidation = Head(it)
                  /\ Head(it) \in SignalsRemoved(a)
            /\ Len(ex'[a].pending_orders) > Len(ex[a].pending_orders)
               => /\ EvaluatesEntry /\ Acct = a
                  /\ Head(it) \in EntriesRemoved(a)
                  /\ ev'.outcome = "order"
                  /\ Len(ex'[a].pending_orders) = Len(ex[a].pending_orders) + 1
            /\ Len(ex'[a].open_positions) > Len(ex[a].open_positions)
               => /\ pc = "run" /\ phase = "orders" /\ Acct = a
                  /\ ~SeqHas(ex'[a].pending_orders, Head(it))
                  /\ Len(ex'[a].pending_orders) = Len(ex[a].pending_orders) - 1
                  /\ Len(ex'[a].open_positions) = Len(ex[a].open_positions) + 1
                  /\ Last(ex'[a].open_positions).position_id = Head(it).order_id]_vars
    /\ [][EvaluatesEntry => SeqHas(ex[Acct].positions_to_open, Head(it))]_vars

\* a triggered entry just left the registry and placed the one order of the
\* account
C15_Witness ==
    /\ ev.kind = "pto" /\ ev.outcome = "order"
    /\ ~SeqHas(ex[ev.acct].positions_to_open, ev.item)
    /\ Len(ex[ev.acct].pending_orders) = 1
    /\ ex[ev.acct].pending_orders[1].timestamp = now
    /\ ex[ev.acct].pending_orders[1].order_id = ex[ev.acct].order_id_counter

\* ------------------------------------------------------------------------
\* handle_position_to_open on any PositionToOpen: one call on an account
\* that holds one pending entry
\* ------------------------------------------------------------------------
\* the levels of a pending entry: unset, 99.0 or 100.5
EntryLevels == {None, 990, 1005}

\* the opening time of the signal's candle, Monday 05:45
EntrySignalTime == 345

\* the bucket stamps of the signal: the candle's opening time, its end, or
\* a stamp ahead of the exchange's clock
EntryBucketTimes == {EntrySignalTime, EntrySignalTime + 5, EntrySignalTime + 30}

\* the scan times of the call: 15, 20 and 25 minutes after the signal's
\* candle opened, and a day later
EntryNows ==
    {EntrySignalTime + 15, EntrySignalTime + 20, EntrySignalTime + 25,
     EntrySignalTime + 1440 + 15, EntrySignalTime + 1440 + 20}

EntrySignal(t) ==
    [id |-> LiquidationId("l", CandleAt([open |-> 995, high |-> 1000, low |-> 990,
                                          close |-> 995], EntrySignalTime)),
     amount |-> 30000,
     direction |-> LONG,
     time |-> t,
     nr_of_liquidations |-> 1,
     candle |-> CandleAt([open |-> 995, high |-> 1000, low |-> 990, close |-> 995],
                         EntrySignalTime)]

\* a PositionToOpen with the given levels; a side with an entry level has
\* tp 4.0, sl 1.0 and weight 0.5
EntryWith(t, cbc, long_above, short_below, cancel_above, cancel_below) ==
    [id |-> EntrySignal(t).id,
     liquidation |-> EntrySignal(t),
     candles_before_confirmation |-> cbc,
     long_above |-> long_above,
     short_below |-> short_below,
     short_tp |-> IF short_below = None THEN None ELSE FORCED_TP,
     short_sl |-> IF short_below = None THEN None ELSE FORCED_SL,
     short_weight |-> IF short_below = None THEN None ELSE FORCED_WEIGHT,
     long_tp |-> IF long_above = None THEN None ELSE FORCED_TP,
     long_sl |-> IF long_above = None THEN None ELSE FORCED_SL,
     long_weight |-> IF long_above = None THEN None ELSE FORCED_WEIGHT,
     cancel_above |-> cancel_above,
     cancel_below |-> cancel_below]

Entries ==
    {EntryWith(t, cbc, la, sb, ca, cb) :
        t \in EntryBucketTimes, cbc \in {1, 2},
        la \in EntryLevels, sb \in EntryLevels,
        ca \in EntryLevels, cb \in EntryLevels}

\* the 24/7 account holds one pending entry and run_loop has reached it
InitEntry ==
    /\ \E pto \in Entries :
          /\ ex = [a \in AccountSet |->
                     IF a = M247
                     THEN [NewExchange(a, StartingBalance)
                              EXCEPT !.positions_to_open = <<pto>>]
                     ELSE NewExchange(a, StartingBalance)]
          /\ it = <<pto>>
    /\ now \in EntryNows
    /\ \E shape \in CandleShapes : last_candle = CandleAt(shape, now - 5)
    /\ symbols = <<>>
    /\ tables = [live |-> TableRows(FALSE, 0, 0, 0),
                 reversed |-> TableRows(FALSE, 0, 0, 0)]
    /\ pc = "run"
    /\ acct = 1
    /\ phase = "pto"
    /\ cycles = MaxCycles
    /\ batches = 0
    /\ failures = 0
    /\ ev = NoEvent

SpecEntry == InitEntry /\ [][PtoStep]_vars

\* the close of the candle crosses a set cancel level of the entry
CrossesCancel(pto, candle) ==
    \/ pto.cancel_above # None /\ candle.close > pto.cancel_above
    \/ pto.cancel_below # None /\ candle.close < pto.cancel_below

\* the close of the candle crosses a set entry level of the entry
CrossesEntry(pto, candle) ==
    \/ pto.long_above # None /\ candle.close > pto.long_above
    \/ pto.short_below # None /\ candle.close < pto.short_below

\* C16: when the close crosses a set cancel level of the evaluated entry,
\* the entry is removed and no order or position is created and the ledger
\* is unchanged, whether or not the close also crosses an entry level.
C16_CancelBeforeTrigger ==
    [][(EvaluatesEntry /\ CrossesCancel(Head(it), last_candle))
       => /\ ~SeqHas(ex'[Acct].positions_to_open, Head(it))
          /\ ex'[Acct].pending_orders = ex[Acct].pending_orders
          /\ ex'[Acct].open_positions = ex[Acct].open_positions
          /\ ex'[Acct].order_id_counter = ex[Acct].order_id_counter
          /\ ex'[Acct].balance = ex[Acct].balance
          /\ pc' # "crashed"]_vars

\* an entry whose long-entry and cancel-above were both crossed by the close
\* was just cancelled, with no order placed
C16_Witness ==
    /\ ev.kind = "pto" /\ ev.outcome = "cancel"
    /\ CrossesCancel(ev.item, last_candle)
    /\ CrossesEntry(ev.item, last_candle)
    /\ ex[ev.acct].positions_to_open = <<>>
    /\ ex[ev.acct].pending_orders = <<>>

\* the evaluated entry triggers: no cancel level is crossed and an entry
\* level is
Triggers(pto, candle) ==
    /\ ~CancelAbove(pto, candle) /\ ~CancelBelow(pto, candle)
    /\ LongAbove(pto, candle) \/ ShortBelow(pto, candle)

\* C17: when the evaluated entry triggers, it is removed; if its computed
\* nr_of_candles_before_entry is in the forbidden set no order or position
\* is created and the ledger is unchanged, otherwise an order is placed.
C17_ForbiddenDelayDropsElseOrder ==
    [][(EvaluatesEntry /\ Triggers(Head(it), last_candle))
       => /\ ~SeqHas(ex'[Acct].positions_to_open, Head(it))
          /\ ex'[Acct].open_positions = ex[Acct].open_positions
          /\ ex'[Acct].balance = ex[Acct].balance
          /\ IF NrOfCandlesBeforeEntry(Head(it), now)
                  \in FORBIDDEN_NR_OF_CANDLES_BEFORE_ENTRY
             THEN ex'[Acct].pending_orders = ex[Acct].pending_orders
             ELSE Len(ex'[Acct].pending_orders)
                    = Len(ex[Acct].pending_orders) + 1]_vars

\* the first candle after the confirmation of the entry's signal
FirstCandleAfterConfirmation(pto) ==
    pto.liquidation.time + (pto.candles_before_confirmation + 1) * 5

\* C18: for every trigger the value tested against the forbidden set is
\* floor((now - (signal_time + (candles_before_confirmation + 1) x 5 min))
\* / 5 min), also for intervals of a day or more and for negative ones.
C18_DelayIsFloorOfElapsed ==
    (EvaluatesEntry /\ Triggers(Head(it), last_candle))
    => NrOfCandlesBeforeEntry(Head(it), now)
         = (now - FirstCandleAfterConfirmation(Head(it))) \div 5

\* the level of the entry the close crossed: the long-entry if it was
\* crossed, else the short-entry
TriggeredLevel(pto, candle) ==
    IF LongAbove(pto, candle) THEN pto.long_above ELSE pto.short_below

\* the evaluated entry triggers with a delay that is not forbidden, and the
\* step places its order
PlacesOrder ==
    /\ EvaluatesEntry /\ Triggers(Head(it), last_candle)
    /\ NrOfCandlesBeforeEntry(Head(it), now)
         \notin FORBIDDEN_NR_OF_CANDLES_BEFORE_ENTRY
    /\ ev'.outcome = "order"

FillsDone(a) ==
    \/ pc = "scan"
    \/ pc = "run" /\ acct = 2 /\ a = M247
    \/ pc = "run" /\ Acct = a /\ phase \in {"pto", "liq"}

\* in the current cycle run_loop of account a has evaluated its signals
ConfirmationDone(a) ==
    \/ pc = "scan"
    \/ pc = "run" /\ acct = 2 /\ a = M247

\* the stages of a cycle for one account, in the order of the code
StageRank(ph) ==
    CASE ph = "orders" -> 1
      [] ph = "positions" -> 2
      [] ph = "pto" -> 3
      [] ph = "liq" -> 4
      [] OTHER -> 5

\* C20 as stated: within a cycle the cycle's signals are inserted before the
\* registry is evaluated, and the registry is evaluated before the fills and
\* closes are resolved, so that a signal is evaluated in the cycle of its
\* insertion.
C20_AggregateConfirmThenFill ==
    [][\A a \in AccountSet :
         /\ (ev'.kind = "scan" /\ ev'.acct = a) => ~ConfirmationDone(a)
         /\ (ev'.kind = "liq" /\ ev'.acct = a) => ~FillsDone(a)]_vars

\* C20 amended: within a cycle each account first resolves fills, then
\* closes (updating the ledger), then evaluates its pending entries, then its
\* signals, the 24/7 account before the scheduled one; only then the batch is
\* aggregated and the cycle's signals are inserted. A signal is therefore
\* first evaluated in the cycle after its insertion, against a candle at
\* least 5 minutes younger than its own.
C20_FillConfirmThenAggregate ==
    /\ [][\A a \in AccountSet :
            /\ SignalsInserted(a) # {}
               => pc = "scan" /\ ConfirmationDone(a) /\ FillsDone(a)
            /\ (ev'.kind = "liq" /\ ev'.acct = a) => FillsDone(a)
            /\ ex'[a].balance # ex[a].balance
               => pc = "run" /\ Acct = a /\ phase \in {"orders", "positions"}]_vars
    /\ [][(pc = "run" /\ pc' = "run")
          => /\ acct' >= acct
             /\ acct' = acct => StageRank(phase') >= StageRank(phase)]_vars
    /\ [][EvaluatesSignal
          => /\ Head(it).candle.timestamp <= now - 10
             /\ Head(it).candle.timestamp < last_candle.timestamp]_vars

\* in one cycle an account filled an order against the cycle's candle and
\* then evaluated a signal inserted in an earlier cycle
C20_Witness ==
    /\ ev.kind = "liq"
    /\ ev.item.candle.timestamp < last_candle.timestamp
    /\ ex[ev.acct].open_positions # <<>>
    /\ Last(ex[ev.acct].open_positions).entry_timestamp = last_candle.timestamp

\* ------------------------------------------------------------------------
\* Closes before entries
\* ------------------------------------------------------------------------
\* no open position of account a is left that the cycle's candle closes
ClosesSettled(a) ==
    \A i \in DOMAIN ex[a].open_positions :
        CloseReason(ex[a].open_positions[i], last_candle) = "none"

CandleUnavailable == ev'.kind = "tick" /\ ev'.outcome = "unavailable"

\* the registries, orders, positions and ledger of an account (its position
\* size, recomputed at minute 4, is none of them)
Holdings(e) ==
    [liquidations |-> e.liquidations,
     positions_to_open |-> e.positions_to_open,
     pending_orders |-> e.pending_orders,
     open_positions |-> e.open_positions,
     order_id_counter |-> e.order_id_counter,
     balance |-> e.balance,
     peak_balance |-> e.peak_balance,
     max_drawdown |-> e.max_drawdown,
     wins |-> e.wins,
     losses |-> e.losses,
     trade_history |-> e.trade_history]

\* C22 as stated: a cycle whose candle fetch fails changes nothing of the
\* account that fetched and raises no error, and only that account skips
\* the cycle: the other account is still served in it.
C22_SkipOneAccountOnly ==
    [][CandleUnavailable
       => /\ Holdings(ex'[M247]) = Holdings(ex[M247])
          /\ pc' \in {"run", "scan"} /\ acct' = 2]_vars

\* C22 amended: the candle is fetched once per cycle for both accounts; when
\* the fetch fails the cycle is skipped for both: no registry, order,
\* position or ledger field of either account changes until the next tick,
\* no batch is fetched, no error is raised and the loop goes on to the
\* position sizing and the next tick.
C22_SkipBothAccounts ==
    /\ [][CandleUnavailable
          => /\ ex' = ex /\ symbols' = symbols
             /\ pc' = "sizes" /\ acct' = 1
             /\ last_candle' = NoCandle]_vars
    /\ [][last_candle = NoCandle
          => /\ \A a \in AccountSet : Holdings(ex'[a]) = Holdings(ex[a])
             /\ batches' = batches
             /\ pc' \in {"sizes", "tick", "run", "scan"}]_vars
    /\ [](last_candle = NoCandle => pc \in {"sizes", "tick"})

\* the candle fetch just failed while both accounts held an open position:
\* neither is checked in this cycle
C22_Witness ==
    /\ ev.kind = "tick" /\ ev.outcome = "unavailable"
    /\ pc = "sizes"
    /\ ex[M247].open_positions # <<>>
    /\ ex[MSCHED].open_positions # <<>>

\* C23: an unavailable price is never fatal and loses no work: the
\* evaluation of a pending entry that triggers with a delay that is not
\* forbidden never raises, and after it the entry is still in the registry
\* or has produced its order; the position sizing never raises either.
C23_PriceFailureLosesNoWork ==
    [][/\ (EvaluatesEntry /\ Triggers(Head(it), last_candle)
           /\ NrOfCandlesBeforeEntry(Head(it), now)
                \notin FORBIDDEN_NR_OF_CANDLES_BEFORE_ENTRY)
          => /\ pc' # "crashed"
             /\ \/ SeqHas(ex'[Acct].positions_to_open, Head(it))
                \/ /\ Len(ex'[Acct].pending_orders)
                        = Len(ex[Acct].pending_orders) + 1
                   /\ Last(ex'[Acct].pending_orders).timestamp = now
       /\ pc = "sizes" => pc' # "crashed"]_vars

\* ------------------------------------------------------------------------
\* Account isolation
\* ------------------------------------------------------------------------
\* C24: a step of one account's pipeline (sizing, fill, close, entry
\* evaluation, confirmation, aggregation) leaves every field of the other
\* account unchanged; the candle of the cycle is not changed by any step of
\* run_loop or of the aggregation, and the batch is not changed between the
\* aggregation for the 24/7 account and that for the scheduled account.
C24_AccountIsolation ==
    /\ [][\A a \in AccountSet : a # Accounts[acct] => ex'[a] = ex[a]]_vars
    /\ [][(pc \in {"run", "scan"}) => (last_candle' = last_candle)]_vars
    /\ [][(pc = "run" \/ (pc = "scan" /\ acct = 2)) => (symbols' = symbols)]_vars

\* the scheduled account just dropped a confirmed signal for which no table
\* trades, while the 24/7 account keeps the pending entry it built for its
\* own copy of that signal
C24_Witness ==
    /\ ev.kind = "liq" /\ ev.acct = MSCHED /\ ev.outcome = "discard"
    /\ ex[MSCHED].positions_to_open = <<>>
    /\ ex[M247].positions_to_open # <<>>
    /\ Last(ex[M247].positions_to_open).liquidation = ev.item

\* ------------------------------------------------------------------------
\* Shutdown (signal_handler): SIGINT is handled by sys.exit(0), which raises
\* SystemExit in the main thread wherever it is executing
\* ------------------------------------------------------------------------
\* the "if closed:" block interrupted after k of its statements: the balance,
\* the win/loss counter, the peak, the drawdown, the trade record; the
\* removal of the position is the sixth
SettlePrefix(e, position, candle, close_reason, k) ==
    LET full == Settle(e, position, candle, close_reason)
    IN  [e EXCEPT
            !.balance = full.balance,
            !.wins = IF k >= 2 THEN full.wins ELSE @,
            !.losses = IF k >= 2 THEN full.losses ELSE @,
            !.peak_balance = IF k >= 3 THEN full.peak_balance ELSE @,
            !.max_drawdown = IF k >= 4 THEN full.max_drawdown ELSE @,
            !.trade_history = IF k >= 5 THEN full.trade_history ELSE @]

\* the process has exited: main runs no further statement
Exit(kind, item) ==
    /\ pc' = "exited"
    /\ ev' = Event("interrupt", Acct, item, kind)
    /\ UNCHANGED <<now, last_candle, symbols, tables, acct, phase, it, cycles,
                   batches, failures>>

\* SIGINT between two handler calls, or while the loop sleeps
InterruptBetweenCalls ==
    /\ pc \in {"sizes", "tick", "run", "scan"}
    /\ ex' = ex
    /\ Exit("between", None)

\* SIGINT inside the settlement of the position the closes loop has reached
InterruptInSettlement ==
    /\ pc = "run" /\ phase = "positions" /\ it # <<>>
    /\ CloseReason(Head(it), last_candle) # "none"
    /\ \E k \in 1..5 :
          ex' = [ex EXCEPT ![Acct] =
                    SettlePrefix(@, Head(it), last_candle,
                                 CloseReason(Head(it), last_candle), k)]
    /\ Exit("settlement", Head(it))

\* SIGINT while limit_order_placement waits for the price: the triggered
\* entry is removed, its order is not placed
InterruptInTrigger ==
    /\ EvaluatesEntry
    /\ PtoOutcome(Head(it), last_candle, now) = "order"
    /\ ex' = [ex EXCEPT ![Acct].positions_to_open = SeqRemove(@, Head(it))]
    /\ Exit("trigger", Head(it))

NextInterrupt ==
    \/ Next
    \/ InterruptBetweenCalls
    \/ InterruptInSettlement
    \/ InterruptInTrigger

SpecInterrupt == Init /\ [][NextInterrupt]_vars

\* C25: the process exits only between two cycles; a close that has started
\* has updated balance, counters, drawdown and trade history and removed the
\* position, and a trigger that has started has placed its order, before the
\* process exits.
C25_NoExitMidSettlement ==
    [][pc' = "exited"
       => /\ pc \in {"sizes", "tick"}
          /\ ex' = ex
          /\ \A a \in AccountSet :
                /\ ex[a].wins + ex[a].losses = Len(ex[a].trade_history)
                /\ ex[a].balance
                     <= ex[a].starting_balance + SumPnl(ex[a].trade_history)]_vars

\* ------------------------------------------------------------------------
\* Position lifetime
\* ------------------------------------------------------------------------
\* C26: a position is closed only by a candle later than the one against
\* which its order was filled: no position is opened and closed in the same
\* cycle against the same candle.
C26_ClosedByLaterCandle ==
    [][\A a \in AccountSet :
         Len(ex'[a].trade_history) > Len(ex[a].trade_history)
         => /\ pc = "run" /\ phase = "positions" /\ Acct = a
            /\ Head(it).entry_timestamp < last_candle.timestamp]_vars

\* ------------------------------------------------------------------------
\* Confirmation delay
\* ------------------------------------------------------------------------
\* the account is about to confirm the signal Head(it): it is not stale and
\* the close of the cycle's candle is beyond the extreme of its candle
ConfirmsSignal ==
    /\ EvaluatesSignal
    /\ ~LiquidationIsStale(Head(it), now)
    /\ ReactionToLiquidationIsStrong(Head(it), last_candle.close)

\* C27: candles_before_confirmation >= 0 for every PendingEntry. A signal
\* carries the candle that opened 5 minutes before the scan that inserted
\* it and is first evaluated by the next cycle, so it is confirmed 10 or 15
\* minutes after its candle opened (later it is stale), and the PendingEntry
\* holds round(minutes / 5) - 1, which is 1 or 2.
C27_ConfirmationDelayNonNegative ==
    /\ [](\A a \in AccountSet : \A pto \in PendingEntries(a) :
            pto.candles_before_confirmation >= 0)
    /\ [][ConfirmsSignal
          => /\ now - Head(it).candle.timestamp \in {10, 15}
             /\ \A pto \in EntriesCreated(Acct) :
                   /\ pto.candles_before_confirmation
                        = RoundHalfEven(now - Head(it).candle.timestamp, 5) - 1
                   /\ pto.candles_before_confirmation >= 1]_vars

\* a signal was just confirmed 15 minutes after its candle opened, the
\* latest scan time at which it is not stale: its PendingEntry holds 2
C27_Witness ==
    /\ ev.kind = "liq" /\ ev.outcome = "pto"
    /\ now - ev.item.candle.timestamp = 15
    /\ ex[ev.acct].positions_to_open # <<>>
    /\ Last(ex[ev.acct].positions_to_open).liquidation = ev.item
    /\ Last(ex[ev.acct].positions_to_open).candles_before_confirmation = 2

\* the entry level and the cancel level on the side of the signal's own
\* direction: above for a long signal, below for a short one
SameSideEntry(pto) ==
    IF pto.liquidation.direction = LONG THEN pto.long_above ELSE pto.short_below
SameSideCancel(pto) ==
    IF pto.liquidation.direction = LONG THEN pto.cancel_above ELSE pto.cancel_below
OtherSideEntry(pto) ==
    IF pto.liquidation.direction = LONG THEN pto.short_below ELSE pto.long_above

\* C28: a PendingEntry with candles_before_confirmation > 1 has no entry
\* level on the side of its signal's direction but a cancel level there, in
\* both account modes and whatever the live row; it has the entry of the
\* reversed row on the other side, and a signal confirmed that late whose
\* reversed row does not trade is removed without a PendingEntry.
C28_LateConfirmationCancelsSameSide ==
    /\ [](\A a \in AccountSet : \A pto \in PendingEntries(a) :
            pto.candles_before_confirmation > 1
            => /\ SameSideEntry(pto) = None
               /\ SameSideCancel(pto) # None
               /\ OtherSideEntry(pto) # None
               /\ ReversedRowOf(pto.liquidation).trade)
    /\ [][(ConfirmsSignal /\ CandlesBeforeConfirmation(Head(it), now) > 1
           /\ ~ReversedRowOf(Head(it)).trade)
          => /\ ex'[Acct].positions_to_open = ex[Acct].positions_to_open
             /\ ~SeqHas(ex'[Acct].liquidations, Head(it))]_vars

\* a long signal whose live row trades was just confirmed after two candles:
\* its PendingEntry has a cancel level above and the reversed short entry
\* below
C28_Witness ==
    /\ ev.kind = "liq" /\ ev.outcome = "pto" /\ ev.item.direction = LONG
    /\ LiveRowOf(ev.item).trade
    /\ ex[ev.acct].positions_to_open # <<>>
    /\ Last(ex[ev.acct].positions_to_open).liquidation = ev.item
    /\ Last(ex[ev.acct].positions_to_open).candles_before_confirmation = 2
    /\ Last(ex[ev.acct].positions_to_open).long_above = None
    /\ Last(ex[ev.acct].positions_to_open).cancel_above # None
    /\ Last(ex[ev.acct].positions_to_open).short_below # None

\* the parameters of the entry on the side of the signal's own direction
SameSideParams(pto) ==
    IF pto.liquidation.direction = LONG
    THEN [tp |-> pto.long_tp, sl |-> pto.long_sl, weight |-> pto.long_weight]
    ELSE [tp |-> pto.short_tp, sl |-> pto.short_sl, weight |-> pto.short_weight]

\* the cancel level on the side opposite to the signal's direction
OtherSideCancel(pto) ==
    IF pto.liquidation.direction = LONG THEN pto.cancel_below ELSE pto.cancel_above

\* C29: when a signal is confirmed and neither the live nor the reversed
\* table has a trading row for its hour, the signal is removed; the
\* scheduled account builds no PendingEntry; the 24/7 account, when
\* candles_before_confirmation <= 1, builds one PendingEntry whose
\* same-direction side is an entry with tp 4.0, sl 1.0 and weight 0.5 and
\* whose other side is a cancel level.
C29_ForcedEntryOnlyAlwaysOn ==
    [][(ConfirmsSignal /\ ~LiveRowOf(Head(it)).trade
        /\ ~ReversedRowOf(Head(it)).trade)
       => /\ ~SeqHas(ex'[Acct].liquidations, Head(it))
          /\ IF Acct = M247 /\ CandlesBeforeConfirmation(Head(it), now) <= 1
             THEN /\ ex'[Acct].positions_to_open # <<>>
                  /\ ex'[Acct].positions_to_open
                       = Append(ex[Acct].positions_to_open,
                                Last(ex'[Acct].positions_to_open))
                  /\ LET pto == Last(ex'[Acct].positions_to_open)
                     IN  /\ pto.liquidation = Head(it)
                         /\ SameSideEntry(pto) # None
                         /\ SameSideParams(pto)
                              = [tp |-> 40, sl |-> 10, weight |-> 5]
                         /\ OtherSideEntry(pto) = None
                         /\ OtherSideCancel(pto) # None
                         /\ SameSideCancel(pto) = None
             ELSE ex'[Acct].positions_to_open = ex[Acct].positions_to_open]_vars

\* with both tables off the 24/7 account just built the forced short entry
\* for a short signal of which the scheduled account holds its own copy
C29_Witness ==
    /\ ev.kind = "liq" /\ ev.outcome = "pto" /\ ev.acct = M247
    /\ ev.item.direction = SHORT
    /\ ~LiveRowOf(ev.item).trade /\ ~ReversedRowOf(ev.item).trade
    /\ ex[M247].positions_to_open # <<>>
    /\ Last(ex[M247].positions_to_open).liquidation = ev.item
    /\ Last(ex[M247].positions_to_open).short_tp = FORCED_TP
    /\ Last(ex[M247].positions_to_open).short_sl = FORCED_SL
    /\ Last(ex[M247].positions_to_open).short_weight = FORCED_WEIGHT
    /\ SeqHas(ex[MSCHED].liquidations, ev.item)

\* the account is about to evaluate the signal Head(it), which is not stale
\* and whose reaction is not strong
EvaluatesWeakSignal ==
    /\ EvaluatesSignal
    /\ ~LiquidationIsStale(Head(it), now)
    /\ IF Head(it).direction = LONG
       THEN last_candle.close <= Head(it).candle.high
       ELSE last_candle.close >= Head(it).candle.low

\* C30: the evaluation of a signal that is not stale and whose reaction is
\* not strong (long: close <= high of its candle, short: close >= low of
\* its candle) changes nothing of the account: the registry with the signal
\* at its place, the pending entries, orders, positions and ledger are as
\* before, and so is the other account.
C30_WeakReactionKeepsSignal ==
    [][EvaluatesWeakSignal
       => /\ ex' = ex
          /\ SeqHas(ex'[Acct].liquidations, Head(it))
          /\ pc' # "crashed"]_vars

\* a long signal was just evaluated against a close equal to the high of
\* its candle and is still in the registry, next to another signal
C30_Witness ==
    /\ ev.kind = "liq" /\ ev.outcome = "weak" /\ ev.item.direction = LONG
    /\ last_candle.close = ev.item.candle.high
    /\ Len(ex[ev.acct].liquidations) >= 2
    /\ SeqHas(ex[ev.acct].liquidations, ev.item)

\* ------------------------------------------------------------------------
\* Ledger counters and trade history
\* ------------------------------------------------------------------------
\* the number of records of a trade history that satisfy won / lost
NrOfWins(history) == Cardinality({i \in DOMAIN history : history[i].pnl > 0})
NrOfLosses(history) == Cardinality({i \in DOMAIN history : history[i].pnl <= 0})

\* a long position whose take-profit pays exactly its exit fee: entry
\* 12499.9, take-profit 12500.0, size 0.1
TiePosition ==
    [position_id |-> 1, direction |-> LONG, entry_price |-> 124999, size |-> 1,
     stop_loss_price |-> 123749, take_profit_price |-> 125000,
     entry_timestamp |-> 0]

\* the account after the close of TiePosition on its take-profit
TieSettled ==
    Settle([NewExchange(M247, StartingBalance) EXCEPT !.open_positions = <<TiePosition>>],
           TiePosition,
           CandleAt([open |-> 124999, high |-> 125000, low |-> 124999,
                     close |-> 125000], 5),
           "tp")

\* C31: wins + losses equals the number of records of trade_history; wins
\* is the number of records with a net pnl > 0 and losses the number of the
\* others, so every close has counted as a win exactly when its net pnl was
\* positive; a close with a net pnl of exactly 0 counts as a loss.
C31_WinsPlusLossesIsTrades ==
    /\ \A a \in AccountSet :
          /\ ex[a].wins + ex[a].losses = Len(ex[a].trade_history)
          /\ ex[a].wins = NrOfWins(ex[a].trade_history)
          /\ ex[a].losses = NrOfLosses(ex[a].trade_history)
    /\ Last(TieSettled.trade_history).pnl = 0
    /\ TieSettled.wins = 0 /\ TieSettled.losses = 1
    /\ TieSettled.balance = StartingBalance

\* an account has closed one position with a profit and one with a loss
C31_Witness ==
    \E a \in AccountSet :
        /\ ex[a].wins = 1 /\ ex[a].losses = 1
        /\ Len(ex[a].trade_history) = 2

\* the ledger of an account
Ledger(e) ==
    [balance |-> e.balance,
     peak_balance |-> e.peak_balance,
     max_drawdown |-> e.max_drawdown,
     wins |-> e.wins,
     losses |-> e.losses,
     trade_history |-> e.trade_history]

\* the step fills a pending order or closes an open position of account a
FillsOrCloses(a) ==
    /\ pc = "run" /\ Acct = a /\ it # <<>>
    /\ \/ phase = "orders" /\ OrderFills(Head(it), last_candle)
       \/ phase = "positions" /\ CloseReason(Head(it), last_candle) # "none"

\* C32: the ledger of an account (balance, peak balance, maximum drawdown,
\* wins, losses, trade history) is changed only by the fill of one of its
\* pending orders and the close of one of its open positions; aggregation,
\* confirmation, the evaluation of a pending entry (cancel, wait, drop,
\* order placement), the size recalculation and the tick leave it unchanged.
C32_LedgerChangedByLifecycleOnly ==
    [][\A a \in AccountSet :
          Ledger(ex[a])' # Ledger(ex[a]) => FillsOrCloses(a)]_vars

\* a pending entry was cancelled or dropped on an account that has closed a
\* trade and stands below its peak
C32_Witness ==
    /\ ev.kind = "pto" /\ ev.outcome \in {"cancel", "drop"}
    /\ ex[ev.acct].trade_history # <<>>
    /\ ex[ev.acct].balance # ex[ev.acct].peak_balance

\* seq is a prefix of longer
IsPrefix(seq, longer) ==
    Len(seq) <= Len(longer) /\ SubSeq(longer, 1, Len(seq)) = seq

\* the step removes an open position of account a
ClosesPosition(a) == Len(ex'[a].open_positions) < Len(ex[a].open_positions)

\* one whole call of process_market_movements on the account e appends one
\* record for every position it closes, after the positions the fills opened
WholeCallAppends(e, candle) ==
    LET filled == FillOrders(e, e.pending_orders, candle)
        done == ProcessMarketMovements(e, candle)
    IN  /\ IsPrefix(e.trade_history, done.trade_history)
        /\ Len(done.trade_history) - Len(e.trade_history)
               = Len(filled.open_positions) - Len(done.open_positions)

\* C33: trade_history is append-only with exactly one record per close:
\* over every step the previous history is a prefix of the new one, its
\* length grows by the number of positions the step closed, and the record
\* of a close has reason "tp" or "sl", the id of the closed position and as
\* exit price that position's take-profit or stop-loss price. The same holds
\* for one whole call of process_market_movements on any state reached.
C33_HistoryAppendOnly ==
    [][\A a \in AccountSet :
          /\ IsPrefix(ex[a].trade_history, ex'[a].trade_history)
          /\ Len(ex'[a].trade_history) - Len(ex[a].trade_history)
                 = IF ClosesPosition(a) THEN 1 ELSE 0
          /\ \A i \in DOMAIN ex'[a].trade_history :
                 ex'[a].trade_history[i].reason \in {"tp", "sl"}
          /\ ClosesPosition(a) =>
                 LET rec == Last(ex'[a].trade_history)
                 IN  /\ rec.trade_id = Head(it).position_id
                     /\ rec.exit_price =
                            IF rec.reason = "tp"
                            THEN Head(it).take_profit_price
                            ELSE Head(it).stop_loss_price
          /\ last_candle' # NoCandle => WholeCallAppends(ex'[a], last_candle')]_vars

\* a position was just closed on an account that had a record already
C33_Witness ==
    /\ ev.kind = "position" /\ ev.outcome \in {"tp", "sl"}
    /\ Len(ex[ev.acct].trade_history) = 2
    /\ Last(ex[ev.acct].trade_history).trade_id = ev.item.position_id

\* ------------------------------------------------------------------------
\* Residence of a signal in the registry
\* ------------------------------------------------------------------------
\* minutes between the open of the signal's candle and the current cycle
Age(liquidation) == now - liquidation.candle.timestamp

\* run_loop of the current cycle has not evaluated the signal sig of
\* account a yet
AwaitsEvaluation(a, sig) ==
    /\ pc = "run"
    /\ \/ Acct = M247 /\ a = MSCHED
       \/ Acct = a /\ PhaseIndex(phase) < PhaseIndex("liq")
       \/ Acct = a /\ phase = "liq" /\ SeqHas(it, sig)

\* C34: a signal enters the registry in the cycle that starts 5 minutes
\* after the open of its candle and is evaluated once per cycle with an
\* available candle, from the next cycle on: at ages 10, 15, 20, ... An
\* evaluation at an age of 20 or more removes it whatever the close is, so
\* no signal survives a third evaluation, and once run_loop of a cycle with
\* an available candle has passed it, a signal still registered is at most
\* 15 minutes old. Only a skipped cycle (no candle) or the end of the
\* program leaves an older signal in the registry.
C34_SignalResidenceBounded ==
    \A a \in AccountSet :
        \A sig \in Elems(ex[a].liquidations) :
            /\ Age(sig) >= 5
            /\ (EvaluatesSignal /\ Acct = a /\ sig = Head(it)) => Age(sig) >= 10
            /\ Age(sig) >= 20 =>
                  \/ AwaitsEvaluation(a, sig)
                  \/ last_candle = NoCandle
                  \/ pc = "crashed"

\* a signal was just removed at its third evaluation, 20 minutes after the
\* open of its candle, after two evaluations that left it in the registry
C34_Witness ==
    /\ ev.kind = "liq" /\ ev.outcome = "stale"
    /\ now - ev.item.candle.timestamp = 20
    /\ failures = 0
    /\ ~SeqHas(ex[ev.acct].liquidations, ev.item)

\* ------------------------------------------------------------------------
\* Order conservation
\* ------------------------------------------------------------------------
\* the ids held at one of the three places of an account
PendingIds(a) == {ex[a].pending_orders[i].order_id : i \in DOMAIN ex[a].pending_orders}
OpenIds(a) == {ex[a].open_positions[i].position_id : i \in DOMAIN ex[a].open_positions}
ClosedIds(a) == {ex[a].trade_history[i].trade_id : i \in DOMAIN ex[a].trade_history}

\* C35: in every reachable state of an account order_id_counter equals
\* len(pending_orders) + len(open_positions) + len(trade_history); the ids
\* generated so far (1 .. order_id_counter) are each held at exactly one of
\* the three places, once: as a pending order, as an open position or as a
\* record of trade_history.
C35_OrderConservation ==
    \A a \in AccountSet :
        /\ ex[a].order_id_counter
             = Len(ex[a].pending_orders) + Len(ex[a].open_positions)
               + Len(ex[a].trade_history)
        /\ PendingIds(a) \cup OpenIds(a) \cup ClosedIds(a) = 1..ex[a].order_id_counter
        /\ PendingIds(a) \cap OpenIds(a) = {}
        /\ PendingIds(a) \cap ClosedIds(a) = {}
        /\ OpenIds(a) \cap ClosedIds(a) = {}
        /\ Cardinality(PendingIds(a)) = Len(ex[a].pending_orders)
        /\ Cardinality(OpenIds(a)) = Len(ex[a].open_positions)
        /\ Cardinality(ClosedIds(a)) = Len(ex[a].trade_history)

\* an account has placed two orders, one of them closed already, the other
\* still pending or open
C35_Witness ==
    \E a \in AccountSet :
        /\ ex[a].order_id_counter = 2
        /\ Len(ex[a].trade_history) = 1
        /\ Len(ex[a].pending_orders) + Len(ex[a].open_positions) = 1

\* ------------------------------------------------------------------------
\* Shape of a pending entry
\* ------------------------------------------------------------------------
\* the level a pending entry holds above and below the confirming close
AboveLevel(pto) == IF Truthy(pto.long_above) THEN pto.long_above ELSE pto.cancel_above
BelowLevel(pto) == IF Truthy(pto.short_below) THEN pto.short_below ELSE pto.cancel_below

\* on each side exactly one of entry level and cancel level, and at least
\* one entry level
OneLevelPerSide(pto) ==
    /\ Truthy(pto.long_above) # Truthy(pto.cancel_above)
    /\ Truthy(pto.short_below) # Truthy(pto.cancel_below)
    /\ Truthy(pto.long_above) \/ Truthy(pto.short_below)

\* C36: every PendingEntry of a registry has on each side exactly one of
\* entry level and cancel level (above: long-entry xor cancel-above, below:
\* short-entry xor cancel-below) and at least one entry level; when it is
\* created its below level is strictly less than the close of the
\* confirming candle, which is strictly less than its above level, so
\* against that candle it neither triggers nor cancels.
C36_EntryLevelsStraddleClose ==
    [][\A a \in AccountSet :
          /\ \A pto \in Elems(ex'[a].positions_to_open) :
                /\ OneLevelPerSide(pto)
                /\ BelowLevel(pto) < AboveLevel(pto)
          /\ \A pto \in EntriesCreated(a) :
                /\ BelowLevel(pto) < last_candle.close
                /\ last_candle.close < AboveLevel(pto)
                /\ ~CancelAbove(pto, last_candle) /\ ~CancelBelow(pto, last_candle)
                /\ ~LongAbove(pto, last_candle) /\ ~ShortBelow(pto, last_candle)
                /\ PtoOutcome(pto, last_candle, now) = "wait"]_vars

\* a PendingEntry with an entry level on both sides was just created
C36_Witness ==
    /\ ev.kind = "liq" /\ ev.outcome = "pto"
    /\ ex[ev.acct].positions_to_open # <<>>
    /\ LET pto == Last(ex[ev.acct].positions_to_open)
       IN  /\ pto.liquidation = ev.item
           /\ Truthy(pto.long_above) /\ Truthy(pto.short_below)
           /\ pto.short_below < last_candle.close
           /\ last_candle.close < pto.long_above

\* ------------------------------------------------------------------------
\* Residence of a pending entry
\* ------------------------------------------------------------------------
\* the 5-minute cycles of one day
CyclesPerDay == 288

\* the close lies within [below level, above level] of the entry
CloseWithinLevels(pto, candle) ==
    BelowLevel(pto) <= candle.close /\ candle.close <= AboveLevel(pto)

\* C37: a PendingEntry has no expiry. It leaves its registry only in the
\* evaluation of a candle whose close is strictly above its above level or
\* strictly below its below level; an evaluation with a close within
\* [below, above] leaves the entry and the whole account unchanged, and
\* would do so at any later cycle of the next day as well.
C37_EntryHasNoExpiry ==
    [][EvaluatesEntry =>
          /\ ~SeqHas(ex'[Acct].positions_to_open, Head(it))
             => \/ last_candle.close > AboveLevel(Head(it))
                \/ last_candle.close < BelowLevel(Head(it))
          /\ CloseWithinLevels(Head(it), last_candle)
             => /\ ex' = ex
                /\ ev'.outcome = "wait"
                /\ \A k \in 0..CyclesPerDay :
                      HandlePositionToOpen(ex[Acct], Head(it), last_candle,
                                           now + 5 * k, None) = ex[Acct]]_vars

\* a PendingEntry confirmed three cycles ago was evaluated again and stays
\* in the registry
C37_Witness ==
    /\ ev.kind = "pto" /\ ev.outcome = "wait"
    /\ SeqHas(ex[ev.acct].positions_to_open, ev.item)
    /\ CloseWithinLevels(ev.item, last_candle)
    /\ now - ev.item.liquidation.candle.timestamp
         >= (ev.item.candles_before_confirmation + 4) * 5

\* ------------------------------------------------------------------------
\* Cycles between emission, confirmation and trigger
\* ------------------------------------------------------------------------
\* the time of the cycle whose scan emitted the signal: its candle is the one
\* fetched for that cycle, which opened 5 minutes before it
EmissionCycle(liquidation) == liquidation.candle.timestamp + 5

\* the time of the cycle that confirmed the signal of the entry, from
\* candles_before_confirmation = (now - candle time) / 5 - 1
ConfirmationCycle(pto) ==
    pto.liquidation.candle.timestamp + (pto.candles_before_confirmation + 1) * 5

C39_DelayCountsCycles ==
    (/\ EvaluatesEntry /\ Triggers(Head(it), last_candle)
     /\ Head(it).liquidation.time = Head(it).liquidation.candle.timestamp
     /\ now > ConfirmationCycle(Head(it)))
    => NrOfCandlesBeforeEntry(Head(it), now)
         = (now - ConfirmationCycle(Head(it))) \div 5

\* ------------------------------------------------------------------------
\* Time gating of the scheduled account
\* ------------------------------------------------------------------------
\* the candle of the cycle lies outside the scheduled days and hours
OutsideSchedule == last_candle # NoCandle /\ ~IsTradingTime(MSCHED, last_candle)

\* run_loop of the scheduled account handles an item of the given loop
\* against a candle outside the schedule
HandlesOutsideSchedule(ph) ==
    pc = "run" /\ Acct = MSCHED /\ phase = ph /\ it # <<>> /\ OutsideSchedule

\* C40: the time gating of the scheduled account applies at signal emission
\* only. A scan whose candle is outside the scheduled days and hours inserts
\* no signal for it, but in a cycle whose candle is outside them the account
\* still confirms a signal on a strong reaction (removing it and creating
\* the PendingEntry unless both levels cancel), places the order of a
\* triggered entry, fills an order the candle reaches and closes a position
\* whose take-profit or stop-loss the candle reaches.
C40_GatingOnlyAtEmission ==
    [][/\ (pc = "scan" /\ Acct = MSCHED /\ OutsideSchedule)
          => ex'[MSCHED].liquidations = ex[MSCHED].liquidations
       /\ (/\ HandlesOutsideSchedule("liq")
           /\ ~LiquidationIsStale(Head(it), now)
           /\ ReactionToLiquidationIsStrong(Head(it), last_candle.close))
          => /\ ~SeqHas(ex'[MSCHED].liquidations, Head(it))
             /\ ev'.outcome \in {"pto", "discard"}
             /\ ev'.outcome = "pto"
                => /\ Len(ex'[MSCHED].positions_to_open)
                        = Len(ex[MSCHED].positions_to_open) + 1
                   /\ Last(ex'[MSCHED].positions_to_open).liquidation = Head(it)
       /\ (/\ HandlesOutsideSchedule("pto")
           /\ Triggers(Head(it), last_candle)
           /\ ~CancelAbove(Head(it), last_candle)
           /\ ~CancelBelow(Head(it), last_candle)
           /\ NrOfCandlesBeforeEntry(Head(it), now)
                \notin FORBIDDEN_NR_OF_CANDLES_BEFORE_ENTRY
           /\ pc' # "crashed")
          => Len(ex'[MSCHED].pending_orders) = Len(ex[MSCHED].pending_orders) + 1
       /\ (HandlesOutsideSchedule("orders") /\ OrderFills(Head(it), last_candle))
          => /\ Len(ex'[MSCHED].open_positions) = Len(ex[MSCHED].open_positions) + 1
             /\ Last(ex'[MSCHED].open_positions).position_id = Head(it).order_id
       /\ (/\ HandlesOutsideSchedule("positions")
           /\ (TpReached(Head(it), last_candle) \/ SlReached(Head(it), last_candle)))
          => /\ Len(ex'[MSCHED].trade_history) = Len(ex[MSCHED].trade_history) + 1
             /\ Last(ex'[MSCHED].trade_history).trade_id = Head(it).position_id]_vars

\* the scheduled account just closed, against a candle outside its hours, a
\* position that was filled by that candle; its signal was emitted inside
\* the hours
C40_Witness ==
    /\ ev.kind = "position" /\ ev.acct = MSCHED /\ ev.outcome \in {"tp", "sl"}
    /\ OutsideSchedule
    /\ ev.item.entry_timestamp = last_candle.timestamp
    /\ Len(ex[MSCHED].trade_history) = 1
====
